---- MODULE Spec2Model ----
(***************************************************************************)
(* Access-control core of the FBL worker: the sliding-window rate limiter  *)
(* with its two storage backends, the time-boxed view / admin tokens and   *)
(* the daily auth cookie.                                                  *)
(*                                                                         *)
(* Modelling conventions                                                   *)
(*  - Date.now() is the variable clock.                                    *)
(*  - HMAC-SHA256 (and its hex truncations) is a symbolic, collision-free  *)
(*    function of (key, message): the term <<"hmac", key, message>>.       *)
(*  - hashIP(ip + ':' + class) is collision-free: a key is the pair.       *)
(*  - An async function runs atomically between two awaits; each action    *)
(*    below is one such run.                                               *)
(***************************************************************************)
EXTENDS Integers, Sequences, FiniteSets, TLC

(***************************************************************************)
(* Bounds of the rate-limiter model.  Windows and budgets are scaled down: *)
(* rateLimitMiddleware is parametric in windowMs and maxRequests.          *)
(***************************************************************************)
MaxClock == 3
WinUnit == 1
MaxAuth == 1
MaxApi == 2
MaxInFlight == 2
MaxLag == 1
MaxChecks == 3
MaxFaults == 1

VARIABLES
  clock,        \* Date.now()
  backend,      \* which RateLimitStorage createRateLimitStorage(env) built
  memoryStore,  \* InMemoryStorage.store: key -> {data, expires}
  heap,         \* the limitData objects memoryStore entries point to
  durable,      \* state of the external durable key-value service
  chk,          \* the in-flight rateLimitMiddleware calls
  started,      \* history: number of checks begun so far
  faults,       \* history: number of storage faults so far
  admitted,     \* history: timestamps of the checks answered allowed
  history,      \* history: per key, "clean" | "raced" | "faulted"
  minted,       \* the time-boxed tokens the login handlers have issued
  lastTok,      \* the /view or /admin/panel request just answered
  accepted,     \* history: the (route, token, timestamp) requests accepted
  jar,          \* the auth cookies createAuthCookie has built
  lastCookie,   \* the validateAuthCookie call just answered
  envSeed,      \* env.SECRET_SEED, "" when unset
  emptyKeyOk,   \* whether the runtime's importKey takes an empty HMAC key
  csrfIssued,   \* the CSRF tokens generateCSRFToken has returned
  lastCsrf,     \* the verifyCSRFToken / csrfMiddleware call just answered
  gateStore,    \* the rate-limit entries the worker's requests have written
  served,       \* history: number of requests the worker has answered
  lastReq,      \* the request the worker has just answered
  derived,      \* history: the generateDailyPassword calls made
  blacklistStorage, \* gate.js blacklistStorage: key -> {data, expires}
  lastSess,     \* the session call just answered
  revocations,  \* history: key -> instant and ttl of its last successful set
  rateLimitStore, \* globalThis.rateLimitStore, the Map of every InMemoryStorage
  lastValidate, \* the validateRateLimit call just answered
  cache,        \* SmartCache.cache: the entries in insertion order
  lastCleanup,  \* SmartCache.lastCleanup
  sched         \* the CleanupScheduler and the timers it has set

rlVars == <<backend, memoryStore, heap, durable, chk, started, faults, admitted, history>>
authVars == <<minted, lastTok, accepted, jar, lastCookie>>
gateVars ==
  <<envSeed, emptyKeyOk, csrfIssued, lastCsrf, gateStore, served, lastReq, derived>>
sessVars == <<blacklistStorage, lastSess, revocations>>
utilVars == <<lastValidate, cache, lastCleanup, sched>>
vars == <<clock, rlVars, authVars, gateVars, sessVars, utilVars, rateLimitStore>>

----------------------------------------------------------------------------
(* Tokens and cookies: values                                              *)
(*                                                                         *)
(* A timestamp travels as a string: a URL path segment at verification,    *)
(* `${timestamp}` of a number at issue.  A segment is the pair of its      *)
(* spelling and the number parseInt reads from it.  A calendar date string *)
(* 'YYYY-MM-DD' is the index of its UTC day.                               *)

MaxSkew == 1
MaxIssued == 2
MaxDay == 2
MaxJar == 2

SECRET_SEED == "SECRET_SEED"
ViewMaxAgeMs == 10000
AdminMaxAgeMs == 30 * 60 * 1000
DayMs == 24 * 60 * 60 * 1000
CookieB64Len == 130

Canon(n) == [form |-> "canon", n |-> n]     \* String(n)
Lead0(n) == [form |-> "lead0", n |-> n]     \* '0' + String(n)
Trail(n) == [form |-> "trail", n |-> n]     \* String(n) + 'x'
NotANumber == [form |-> "nan", n |-> 0]     \* 'abc'

\* parseInt(timestamp): the leading digits, or NaN.
ParseInt(seg) == [nan |-> seg.form = "nan", v |-> seg.n]

\* now - parseInt(timestamp)
Age(now, seg) == [nan |-> ParseInt(seg).nan, v |-> now - ParseInt(seg).v]

\* An expiry test that also expires a token exactly maxAge old.
TooOldEarly(age, maxAge) == ~age.nan /\ age.v >= maxAge

\* age > maxAge; every comparison with NaN is false.
TooOld(age, maxAge) == ~age.nan /\ age.v > maxAge

\* The first 16 hex digits of HMAC-SHA256(secret, secret:timestamp:purpose).
Hmac16(secret, seg, purpose) == [secret |-> secret, seg |-> seg, purpose |-> purpose]
EmptyToken == [secret |-> "", seg |-> NotANumber, purpose |-> ""]
GuessToken == [secret |-> "guess", seg |-> NotANumber, purpose |-> ""]

\* A token that leaves the timestamp out of the signed message.
GenerateOneTimeTokenUnbound(secret, timestamp) ==
  Hmac16(secret, NotANumber, "onetime")

\* AuthService.generateOneTimeToken
GenerateOneTimeToken(secret, timestamp) == Hmac16(secret, timestamp, "onetime")

\* An admin token signed over the view token's message.
GenerateAdminTokenAsView(secret, timestamp) == Hmac16(secret, timestamp, "onetime")

\* generateAdminToken
GenerateAdminToken(secret, timestamp) == Hmac16(secret, timestamp, "admin")

\* AuthService.timingSafeEquals
TimingSafeEquals(a, b) == a # EmptyToken /\ b # EmptyToken /\ a = b

\* A validator that accepts a token once only.
ValidateOneTimeTokenOnce(secret, token, timestamp, maxAge, now) ==
  /\ <<"view", token, timestamp>> \notin accepted
  /\ ~TooOld(Age(now, timestamp), maxAge)
  /\ TimingSafeEquals(token, GenerateOneTimeToken(secret, timestamp))

\* AuthService.validateOneTimeToken; now is Date.now().
ValidateOneTimeToken(secret, token, timestamp, maxAge, now) ==
  IF TooOld(Age(now, timestamp), maxAge)
    THEN FALSE
    ELSE TimingSafeEquals(token, GenerateOneTimeToken(secret, timestamp))

\* validateAdminToken; now is Date.now().
ValidateAdminToken(secret, token, timestamp, now) ==
  IF TooOld(Age(now, timestamp), AdminMaxAgeMs)
    THEN FALSE
    ELSE token = GenerateAdminToken(secret, timestamp)

\* AuthService.getUTCDateString
GetUTCDateString(t) == t \div DayMs

\* The midnight at or after t: one that leaves an instant that is a
\* midnight where it is.
GetUTCMidnightCeil(t) ==
  IF t % DayMs = 0 THEN t ELSE (t \div DayMs + 1) * DayMs

\* Date.prototype.toUTCString and its reading back: whole seconds.
ToUTCString(t) == (t \div 1000) * 1000

\* AuthService.getUTCMidnight: setUTCHours(24, 0, 0, 0)
GetUTCMidnight(t) == (t \div DayMs + 1) * DayMs

\* new Date(issued + 'T00:00:00.000Z')
DateOf(issued) == issued * DayMs

\* A derivation that signs the seed and the role but not the day.
GenerateDailyPasswordAnyDay(secretSeed, type, date) ==
  [seed |-> secretSeed, admin |-> (type = "admin"), day |-> 0]

\* A derivation that signs the instant instead of its UTC date.
GenerateDailyPasswordByInstant(secretSeed, type, date) ==
  [seed |-> secretSeed, admin |-> (type = "admin"), day |-> date]

\* AuthService.generateDailyPassword (the caller handles a missing seed).
GenerateDailyPassword(secretSeed, type, date) ==
  [seed |-> secretSeed, admin |-> (type = "admin"), day |-> GetUTCDateString(date)]

\* HMAC-SHA256(password, issuedDate), hex.
HmacHex(password, issued) == [pw |-> password, issued |-> issued]
GuessHash == HmacHex([seed |-> "guess", admin |-> FALSE, day |-> 0], 0)

\* AuthService.createAuthCookie: the cookie value and its Expires attribute.
\* btoa of the 97-character JSON text is CookieB64Len characters and two
\* '=' of padding.
CreateAuthCookie(password, issuedAt) ==
  [value |-> [shape |-> "payload", issued |-> GetUTCDateString(issuedAt),
              hash |-> HmacHex(password, GetUTCDateString(issuedAt)), pad |-> 2],
   expires |-> ToUTCString(GetUTCMidnight(issuedAt))]

NoCookieHeader == [shape |-> "absent", issued |-> 0, hash |-> GuessHash, pad |-> 0]

\* Headers that hold no usable fbl_auth value.  "absent": no Cookie header;
\* "empty": the header is ''; "other": cookies, none named fbl_auth;
\* "garbled": a value atob rejects; "notjson": base64 of text JSON.parse
\* rejects ('fbl_auth=invalid'); "null": base64 of the JSON text null;
\* "noissued", "nohash": base64 of a JSON object without that member.
BadCookieShapes ==
  {"absent", "empty", "other", "garbled", "notjson", "null", "noissued", "nohash"}
BadCookie(shape) == [NoCookieHeader EXCEPT !.shape = shape]

\* AuthService.parseCookies: split('=') keeps what stands before the second
\* '=', so the value loses its padding.
ParseCookies(cookieHeader) == [cookieHeader EXCEPT !.pad = 0]

\* atob accepts unpadded base64 unless its length is 1 modulo 4; JSON.parse
\* accepts a JSON object, with or without the members issued and hash.
Decodes(authCookie) ==
  /\ authCookie.shape \in {"payload", "noissued", "nohash"}
  /\ (CookieB64Len + authCookie.pad) % 4 # 1

\* A validator that checks the hash and not the day.
ValidateAuthCookieAnyDay(cookieHeader, secretSeed, now) ==
  /\ Decodes(ParseCookies(cookieHeader))
  /\ cookieHeader.shape = "payload"
  /\ secretSeed # ""
  /\ cookieHeader.hash =
       HmacHex(GenerateDailyPassword(secretSeed, "user", DateOf(cookieHeader.issued)),
               cookieHeader.issued)

\* The statements inside validateAuthCookie's try block; now is new Date().
\* "throw" is an exception raised by atob, by JSON.parse, by destructuring
\* null, or by generateDailyPassword without a seed.
ValidateAuthCookieTry(cookieHeader, secretSeed, now) ==
  LET authCookie == ParseCookies(cookieHeader)
  IN IF authCookie.shape \in {"absent", "empty", "other"} THEN "false"
     ELSE IF ~Decodes(authCookie) THEN "throw"
     ELSE IF authCookie.shape \in {"noissued", "nohash"} THEN "false"
     ELSE IF secretSeed = "" THEN "throw"
     ELSE LET issuedDate == DateOf(authCookie.issued)
              expectedPassword == GenerateDailyPassword(secretSeed, "user", issuedDate)
              expectedHash == HmacHex(expectedPassword, authCookie.issued)
          IN IF authCookie.hash # expectedHash
               THEN "false"
               ELSE IF authCookie.issued = GetUTCDateString(now) THEN "true"
                                                                 ELSE "false"

\* validateAuthCookie without its catch block.
ValidateAuthCookieUncaught(cookieHeader, secretSeed, now) ==
  ValidateAuthCookieTry(cookieHeader, secretSeed, now)

\* validateAuthCookie's try / catch: `catch (error) { return false; }`.
ValidateAuthCookieCaught(cookieHeader, secretSeed, now) ==
  LET outcome == ValidateAuthCookieTry(cookieHeader, secretSeed, now)
  IN IF outcome = "throw" THEN "false" ELSE outcome

\* AuthService.validateAuthCookie: the boolean the promise resolves to.
ValidateAuthCookie(cookieHeader, secretSeed, now) ==
  ValidateAuthCookieCaught(cookieHeader, secretSeed, now) = "true"

NoTok == [route |-> "none", token |-> EmptyToken, seg |-> NotANumber,
          now |-> 0, ok |-> FALSE, again |-> FALSE]
NoCk == [shape |-> "none", issued |-> 0, hash |-> GuessHash, pad |-> 0,
         now |-> 0, ok |-> FALSE, threw |-> FALSE, createdAt |-> -1]

AuthInit ==
  /\ minted = {}
  /\ lastTok = NoTok
  /\ accepted = {}
  /\ jar = {}
  /\ lastCookie = NoCk

\* The answer just given has been delivered.
Quiet ==
  /\ lastTok.route = "none"
  /\ lastCookie.shape = "none"
  /\ lastCsrf.kind = "none"
  /\ lastReq.route = "none"
  /\ lastSess.op = "none"

----------------------------------------------------------------------------
(* Rate limiter: configuration and keys                                    *)

Clients == {"ip1"}
Classes == {"auth", "api"}

\* rateLimitConfigs: auth has the longer window and the smaller budget.
rateLimitConfigs ==
  [auth |-> [windowMs |-> 2 * WinUnit, maxRequests |-> MaxAuth],
   api  |-> [windowMs |-> WinUnit,     maxRequests |-> MaxApi],
   search |-> [windowMs |-> WinUnit,   maxRequests |-> MaxAuth],
   pages |-> [windowMs |-> WinUnit,    maxRequests |-> MaxApi]]

\* keyGenerator of a class: hashIP(ip + ':' + class).
keyGenerator(ip, class) == <<ip, class>>

Keys == {keyGenerator(ip, c) : ip \in Clients, c \in Classes}
ConfigOf(k) == rateLimitConfigs[k[2]]
K0 == CHOOSE k \in Keys : TRUE

Slots == 1..MaxInFlight
ObjIds == 1..(Cardinality(Keys) + MaxInFlight)

Absent == [data |-> 0, expires |-> 0]
NoResult == [allowed |-> FALSE, remaining |-> 0, resetTime |-> 0, total |-> 0]
Idle ==
  [pc |-> "idle", key |-> K0, now |-> 0, ref |-> 0, local |-> <<>>,
   fetched |-> <<>>,
   res |-> NoResult, solo |-> TRUE, full |-> FALSE, stale |-> FALSE,
   seen |-> 0, faultGet |-> FALSE, faultSet |-> FALSE]

InFlightPc == {"awaitGet", "fetchGet", "fetchSet"}

----------------------------------------------------------------------------
(* Pure helpers                                                            *)

SeqMin(s) == CHOOSE x \in {s[i] : i \in DOMAIN s} :
               \A j \in DOMAIN s : x <= s[j]

CountNewer(s, t) == Cardinality({i \in DOMAIN s : s[i] > t})

InsertSorted(s, x) ==
  SelectSeq(s, LAMBDA t : t <= x) \o <<x>> \o SelectSeq(s, LAMBDA t : t > x)

KeepLast(s, n) == IF Len(s) > n THEN SubSeq(s, Len(s) - n + 1, Len(s)) ELSE s

\* A limit test that lets one request too many through.
LimitReachedOffByOne(count, maxRequests) == count > maxRequests

\* The limit test of rateLimitMiddleware: requests.length >= maxRequests.
LimitReached(count, maxRequests) == count >= maxRequests

\* A prune that drops nothing.
PruneNothing(requests, windowStart) == requests

\* requests.filter(timestamp => timestamp > windowStart)
Prune(requests, windowStart) ==
  SelectSeq(requests, LAMBDA t : t > windowStart)

\* A denial that records the denied request as well.
DecideRecordsDenied(requests, now, cfg) ==
  LET kept == Prune(requests, now - cfg.windowMs)
      pushed == Append(kept, now)
  IN IF LimitReached(Len(kept), cfg.maxRequests)
       THEN [requests |-> pushed,
             res |-> [allowed |-> FALSE, remaining |-> 0,
                      resetTime |-> SeqMin(kept) + cfg.windowMs,
                      total |-> cfg.maxRequests]]
       ELSE [requests |-> pushed,
             res |-> [allowed |-> TRUE,
                      remaining |-> cfg.maxRequests - Len(pushed),
                      resetTime |-> pushed[1] + cfg.windowMs,
                      total |-> cfg.maxRequests]]

\* An allowed check that counts remaining before pushing its own timestamp.
DecideRemainingBeforePush(requests, now, cfg) ==
  LET kept == Prune(requests, now - cfg.windowMs)
      pushed == Append(kept, now)
  IN IF LimitReached(Len(kept), cfg.maxRequests)
       THEN [requests |-> kept,
             res |-> [allowed |-> FALSE, remaining |-> 0,
                      resetTime |-> SeqMin(kept) + cfg.windowMs,
                      total |-> cfg.maxRequests]]
       ELSE [requests |-> pushed,
             res |-> [allowed |-> TRUE,
                      remaining |-> cfg.maxRequests - Len(kept),
                      resetTime |-> pushed[1] + cfg.windowMs,
                      total |-> cfg.maxRequests]]

\* A denial that reports the reset a full window after the check itself.
DecideResetFromNow(requests, now, cfg) ==
  LET kept == Prune(requests, now - cfg.windowMs)
      pushed == Append(kept, now)
  IN IF LimitReached(Len(kept), cfg.maxRequests)
       THEN [requests |-> kept,
             res |-> [allowed |-> FALSE, remaining |-> 0,
                      resetTime |-> now + cfg.windowMs,
                      total |-> cfg.maxRequests]]
       ELSE [requests |-> pushed,
             res |-> [allowed |-> TRUE,
                      remaining |-> cfg.maxRequests - Len(pushed),
                      resetTime |-> pushed[1] + cfg.windowMs,
                      total |-> cfg.maxRequests]]

\* Lines 299-327 of rateLimitMiddleware: prune, test, push; the result and
\* the requests array as the call leaves it.
Decide(requests, now, cfg) ==
  LET windowStart == now - cfg.windowMs
      kept == Prune(requests, windowStart)
  IN IF LimitReached(Len(kept), cfg.maxRequests)
       THEN [requests |-> kept,
             res |-> [allowed |-> FALSE, remaining |-> 0,
                      resetTime |-> SeqMin(kept) + cfg.windowMs,
                      total |-> cfg.maxRequests]]
       ELSE LET pushed == Append(kept, now)
            IN [requests |-> pushed,
                res |-> [allowed |-> TRUE,
                         remaining |-> cfg.maxRequests - Len(pushed),
                         resetTime |-> pushed[1] + cfg.windowMs,
                         total |-> cfg.maxRequests]]

\* A catch block that denies.
FailClosed(cfg, t) ==
  [allowed |-> FALSE, remaining |-> 0,
   resetTime |-> t + cfg.windowMs, total |-> cfg.maxRequests]

\* The catch block of rateLimitMiddleware.
FailOpen(cfg, t) ==
  [allowed |-> TRUE, remaining |-> cfg.maxRequests,
   resetTime |-> t + cfg.windowMs, total |-> cfg.maxRequests]

\* An entry that expires as soon as it is written.
EntryTTLZero(cfg) == 0

\* An expiry test that also expires an entry at the instant it expires.
MemExpiredEarly(e, t) == t >= e.expires

\* A TTL of one window only.
EntryTTLOneWindow(cfg) == cfg.windowMs

\* The TTL rateLimitMiddleware passes to set.
EntryTTL(cfg) == cfg.windowMs * 2

\* An expiry test that does not wait for the TTL.
MemExpiredAlways(e, t) == TRUE

\* InMemoryStorage.get: the data reference, or 0 (null) when the entry is
\* missing or expired (the expired entry is deleted by the same call).
MemExpired(e, t) == t > e.expires
MemGet(store, k, t) ==
  IF store[k].data = 0 \/ MemExpired(store[k], t) THEN 0 ELSE store[k].data
MemGetStore(store, k, t) ==
  IF store[k].data # 0 /\ MemExpired(store[k], t)
    THEN [store EXCEPT ![k] = Absent] ELSE store

\* A set that writes the entry under every key.
MemSetEveryKey(store, k, o, ttl, t) ==
  [q \in Keys |-> [data |-> o, expires |-> t + ttl]]

\* InMemoryStorage.set.
MemSet(store, k, o, ttl, t) ==
  [store EXCEPT ![k] = [data |-> o, expires |-> t + ttl]]

\* InMemoryStorage.cleanup: entry.created is never written, so only the
\* expiry test can delete.
MemCleanup(store, t) ==
  [k \in Keys |-> IF store[k].data # 0 /\ MemExpired(store[k], t)
                    THEN Absent ELSE store[k]]

\* Objects still referenced by the store or by a suspended call.
Live(o, store, c) ==
  \/ \E k \in Keys : store[k].data = o
  \/ \E s \in Slots : c[s].pc \in InFlightPc /\ c[s].ref = o
Collect(h, store, c) ==
  [o \in ObjIds |-> IF Live(o, store, c) THEN h[o] ELSE <<>>]
FreshObj ==
  CHOOSE o \in ObjIds :
    /\ ~Live(o, memoryStore, chk)
    /\ \A p \in ObjIds : ~Live(p, memoryStore, chk) => o <= p

\* History bookkeeping.
Admit(a, k, t) ==
  [a EXCEPT ![k] = KeepLast(InsertSorted(a[k], t), ConfigOf(k).maxRequests + 1)]
Others(s, k) == {s2 \in Slots \ {s} : chk[s2].pc \in InFlightPc /\ chk[s2].key = k}
Worse(h, v) == IF h = "faulted" \/ v = "faulted" THEN "faulted"
               ELSE IF h = "raced" \/ v = "raced" THEN "raced" ELSE "clean"

\* More than maxRequests checks were answered allowed with timestamps inside
\* one window of windowMs.
OverAdmitted(k) ==
  LET a == admitted[k]
      n == ConfigOf(k).maxRequests
  IN Len(a) > n /\ a[Len(a)] - a[Len(a) - n] < ConfigOf(k).windowMs

\* A finished check is handed to its caller before anything else runs.
NoneDone == \A s \in Slots : chk[s].pc # "done"

----------------------------------------------------------------------------
(* CSRF tokens: values                                                     *)
(*                                                                         *)
(* A token is the text timestamp.randomHex.signatureHex; parts is what     *)
(* split('.') counts, 0 standing for null and for the empty string.        *)

MaxCsrf == 2

CsrfMaxAgeMs == 30 * 60 * 1000
RandomHex == {"r1", "r2"}

\* A signature that leaves the random part out of the signed message.
CsrfSignatureNoNonce(secret, timestamp, randomHex) ==
  [secret |-> secret, ts |-> timestamp, nonce |-> ""]

\* The first 16 hex digits of HMAC-SHA256(secret, timestamp:randomHex).
CsrfSignature(secret, timestamp, randomHex) ==
  [secret |-> secret, ts |-> timestamp, nonce |-> randomHex]

MangledSignature == [secret |-> "mangled", ts |-> NotANumber, nonce |-> ""]

NoCsrfToken ==
  [parts |-> 0, ts |-> NotANumber, nonce |-> "", sig |-> MangledSignature]

\* generateCSRFToken; now is Date.now(), randomHex is what
\* crypto.getRandomValues drew.
GenerateCSRFToken(secret, now, randomHex) ==
  [parts |-> 3, ts |-> Canon(now), nonce |-> randomHex,
   sig |-> CsrfSignature(secret, Canon(now), randomHex)]

\* importKey rejects the empty key an unset secret encodes to, unless the
\* runtime takes it.
ImportKeyThrows(secret, keyOk) == secret = "" /\ ~keyOk

\* verifyCSRFToken; now is Date.now().  A throw inside ends in the catch
\* block's `return false`.
VerifyCSRFToken(token, secret, now, keyOk) ==
  IF token.parts = 0 THEN FALSE
  ELSE IF token.parts # 3 THEN FALSE
  ELSE IF TooOld(Age(now, token.ts), CsrfMaxAgeMs) THEN FALSE
  ELSE IF ImportKeyThrows(secret, keyOk) THEN FALSE
  ELSE token.sig = CsrfSignature(secret, token.ts, token.nonce)

\* The timestamp part with one character changed: another digit, a letter
\* for the last digit, a letter for the first.
MangledTs(seg) ==
  {Canon(seg.n + 1), NotANumber} \cup
  (IF seg.n >= 10 THEN {Trail(seg.n \div 10)} ELSE {})

\* An issued token with one character of one part changed; a '.' written
\* into a part makes four parts.
Mangled(token) ==
  {[token EXCEPT !.ts = s] : s \in MangledTs(token.ts)} \cup
  {[token EXCEPT !.nonce = "r1x"],
   [token EXCEPT !.sig = MangledSignature],
   [token EXCEPT !.parts = 4]}

\* A token no secret has signed.
ForgedCsrfToken ==
  [parts |-> 3, ts |-> Canon(0), nonce |-> "r1x", sig |-> MangledSignature]

\* What csrfMiddleware reads of a request: method, path, the X-CSRF-Token
\* header, the csrf-token cookie, the csrf-token form field, and whether the
\* Content-Type is a form type.
NoCsrfReq ==
  [method |-> "GET", path |-> "/", header |-> NoCsrfToken, cookie |-> NoCsrfToken,
   form |-> NoCsrfToken, formType |-> FALSE]

skipMethods == {"GET", "HEAD", "OPTIONS"}
skipPathsDefault == {"/health", "/lock", "/admin"}

\* extractCSRFToken: the header when it is non-empty, else the cookie.
ExtractCSRFToken(request) ==
  IF request.header.parts # 0 THEN request.header ELSE request.cookie

\* extractCSRFTokenFromForm
ExtractCSRFTokenFromForm(request) ==
  IF request.formType THEN request.form ELSE NoCsrfToken

CsrfSkipped(request, skipPaths) ==
  request.method \in skipMethods \/ request.path \in skipPaths

\* The token csrfMiddleware verifies.
CsrfTokenOf(request) ==
  LET token == ExtractCSRFToken(request)
  IN IF token.parts = 0 /\ request.method \in {"POST", "PUT", "PATCH"}
       THEN ExtractCSRFTokenFromForm(request)
       ELSE token

CsrfPass == [valid |-> TRUE, status |-> 200, error |-> ""]

\* A csrfMiddleware whose token verification throws on a token that does
\* not verify, so that the catch block answers.
CsrfMiddlewareVerifyThrows(request, secret, now, keyOk, skipPaths) ==
  IF CsrfSkipped(request, skipPaths) THEN CsrfPass
  ELSE LET token == CsrfTokenOf(request)
       IN IF token.parts = 0
            THEN [valid |-> FALSE, status |-> 403, error |-> "CSRF token missing"]
          ELSE IF ~VerifyCSRFToken(token, secret, now, keyOk)
            THEN [valid |-> FALSE, status |-> 500, error |-> "CSRF validation failed"]
          ELSE CsrfPass

\* csrfMiddleware(request, env, {skipPaths}); now is Date.now().
CsrfMiddleware(request, secret, now, keyOk, skipPaths) ==
  IF CsrfSkipped(request, skipPaths) THEN CsrfPass
  ELSE LET token == CsrfTokenOf(request)
       IN IF token.parts = 0
            THEN [valid |-> FALSE, status |-> 403, error |-> "CSRF token missing"]
          ELSE IF ~VerifyCSRFToken(token, secret, now, keyOk)
            THEN [valid |-> FALSE, status |-> 403, error |-> "Invalid CSRF token"]
          ELSE CsrfPass

\* What is kept of a call of verifyCSRFToken or csrfMiddleware; NoCsrf when
\* no call is being answered.
CsrfCall ==
  [kind |-> "none", token |-> NoCsrfToken, genuine |-> FALSE, mangled |-> FALSE,
   now |-> 0, ok |-> FALSE, request |-> NoCsrfReq, skipPaths |-> {}, res |-> CsrfPass]
NoCsrf == [kind |-> "none"]

----------------------------------------------------------------------------
(* Worker: values                                                          *)

MaxServed == 3

ADMIN_SECRET_SEED == "ADMIN_SECRET_SEED"
\* The worker's requests one after another on the in-process map:
\* rateLimitMiddleware(request, env, rateLimitConfigs[class]) at instant now.
\* A denied call leaves the pruned list in the stored object.
GateRate(store, class, now) ==
  LET cfg == rateLimitConfigs[class]
      e == store[class]
      live == e.present /\ ~MemExpired(e, now)
      d == Decide(IF live THEN e.requests ELSE <<>>, now, cfg)
  IN [res |-> d.res,
      store |->
        IF d.res.allowed
          THEN [store EXCEPT ![class] =
                  [present |-> TRUE, requests |-> d.requests,
                   expires |-> now + EntryTTL(cfg)]]
        ELSE IF live
          THEN [store EXCEPT ![class].requests = d.requests]
        ELSE [store EXCEPT ![class] =
                [present |-> FALSE, requests |-> <<>>, expires |-> 0]]]

\* generateTokenSignature / generateSessionSignature: the first 16 hex
\* digits of HMAC-SHA256(secret, timestamp:api_token | timestamp:session_token).
GenerateTokenSignature(timestamp, secret) ==
  [secret |-> secret, ts |-> timestamp, nonce |-> "api_token"]
GenerateSessionSignature(timestamp, secret) ==
  [secret |-> secret, ts |-> timestamp, nonce |-> "session_token"]

\* A bearer or session token is the text timestamp:signature; parts is what
\* split(':') counts, 0 standing for an absent header or cookie.
NoBearer ==
  [parts |-> 0, ts |-> NotANumber, sig |-> MangledSignature]
ForgedBearer ==
  [parts |-> 2, ts |-> Canon(0), sig |-> MangledSignature]
\* validateBearerToken; a throw ends in `return { valid: false }`.
ValidateBearerToken(token, secret, now, keyOk) ==
  IF token.parts # 2 THEN FALSE
  ELSE IF TooOld(Age(now, token.ts), 5 * 60 * 1000) THEN FALSE
  ELSE IF ImportKeyThrows(secret, keyOk) THEN FALSE
  ELSE token.sig = GenerateTokenSignature(token.ts, secret)

\* validateSessionCookie on the cfb_session cookie.
ValidateSessionCookie(token, secret, now, keyOk) ==
  IF token.parts = 0 THEN FALSE
  ELSE IF token.parts # 2 THEN FALSE
  ELSE IF TooOld(Age(now, token.ts), 10 * 60 * 1000) THEN FALSE
  ELSE IF ImportKeyThrows(secret, keyOk) THEN FALSE
  ELSE token.sig = GenerateSessionSignature(token.ts, secret)

\* validateSessionToken: the Authorization header when it is a Bearer
\* header, else the Cookie header.  The fbl_auth cookie is not read.
ValidateSessionToken(request, secret, now, keyOk) ==
  IF request.bearer.parts # 0
    THEN ValidateBearerToken(request.bearer, secret, now, keyOk)
    ELSE ValidateSessionCookie(request.session, secret, now, keyOk)

\* requireAuth: the paths it lets through without a credential.
AuthBypass(path) ==
  path \in {"/lock", "/health", "/admin", "/view/t/ts", "/admin/panel/t/ts"}

IsApi(path) == path \in {"/api/books", "/api/search"}

\* requireAuth: 0 for null (go on), else the status of its response.
RequireAuth(request, secret, now, keyOk) ==
  IF AuthBypass(request.path) THEN 0
  ELSE IF IsApi(request.path)
    THEN (IF ValidateSessionToken(request, secret, now, keyOk) THEN 0 ELSE 401)
  ELSE IF ValidateSessionToken(request, secret, now, keyOk) THEN 0
  ELSE IF request.acceptHtml THEN 302
  ELSE 401

\* A form's password field: the text and whether blanks surround it; a
\* missing field and the empty text are both NoPassword.
NoPassword == [seed |-> "", admin |-> FALSE, day |-> 0]
Typed(pw, spaces) == [pw |-> pw, spaces |-> spaces]

\* String.prototype.trim
Trim(text) == [text EXCEPT !.spaces = FALSE]

\* generateAdminPassword (routes/admin.js)
GenerateAdminPassword(adminSecretSeed, date) ==
  [seed |-> adminSecretSeed, admin |-> TRUE, day |-> GetUTCDateString(date)]

\* validatePassword: sanitizeString trims; an empty or missing text is
\* rejected.
ValidatePassword(text) ==
  [valid |-> text.pw # NoPassword, value |-> Trim(text)]

NoGateRequest ==
  [method |-> "GET", path |-> "/health", header |-> NoCsrfToken,
   cookie |-> NoCsrfToken, form |-> NoCsrfToken, formType |-> FALSE,
   bearer |-> NoBearer, session |-> NoBearer, auth |-> NoCookieHeader,
   acceptHtml |-> FALSE, password |-> Typed(NoPassword, FALSE), url |-> [token |-> EmptyToken, seg |-> NotANumber]]

\* What fetch hands back, with the stages it went through on the way.
Reply(status, location, handler, trace, store) ==
  [status |-> status, location |-> location, handler |-> handler,
   trace |-> trace, store |-> store, grant |-> "none",
   csrfToken |-> NoCsrfToken, csrfError |-> "",
   limit |-> "none", rateHeaders |-> FALSE]

\* createRateLimitResponse(rateLimitResult) for a denied request: status
\* 429 with X-RateLimit-Limit, X-RateLimit-Remaining, X-RateLimit-Reset and
\* Retry-After.
TooMany(trace, store) ==
  [Reply(429, "", "none", trace, store)
     EXCEPT !.limit = "denied", !.rateHeaders = TRUE]

\* createRateLimitResponse(rateLimitResult, response) || response for an
\* allowed request: the handler's response with the four headers set.
CreateRateLimitResponse(response) ==
  [response EXCEPT !.limit = "allowed", !.rateHeaders = TRUE]

\* The catch block of fetch.
Unhandled(trace, store) == Reply(500, "", "none", trace, store)

\* handleLockSubmit after the worker's csrfMiddleware; variant "cookie" is
\* routes/lock.js, variant "token" the stateless one.  csrfMiddleware reads
\* the form from a clone, so request.formData() still works here.  A throw
\* of generateDailyPassword (no seed) ends in the catch block, which
\* redirects.
LockSubmit(request, variant, secret, now) ==
  LET password == Trim(request.password)
      failure == [status |-> 302, location |-> "/lock?error=1", grant |-> "none"]
  IN IF password.pw = NoPassword THEN failure
     ELSE IF secret = "" THEN failure
     ELSE IF password # Typed(GenerateDailyPassword(secret, "user", now), FALSE)
       THEN failure
     ELSE IF variant = "cookie"
       THEN [status |-> 302, location |-> "/", grant |-> "cookie"]
     ELSE [status |-> 302, location |-> "/view/t/ts", grant |-> "token"]

\* handleAdminSubmit; generateAdminToken throws on a key importKey refuses
\* and the catch block redirects.
AdminSubmit(request, secret, now, keyOk) ==
  LET passwordValidation == ValidatePassword(request.password)
      failure == [status |-> 302, location |-> "/admin?error=1", grant |-> "none"]
  IN IF ~passwordValidation.valid THEN failure
     ELSE IF passwordValidation.value #
               Typed(GenerateAdminPassword(ADMIN_SECRET_SEED, now), FALSE)
       THEN failure
     ELSE IF ImportKeyThrows(secret, keyOk) THEN failure
     ELSE [status |-> 302, location |-> "/admin/panel/t/ts", grant |-> "admin"]

\* InMemoryStorage.cleanup on the worker's map.
GateCleanup(store, now) ==
  [c \in DOMAIN rateLimitConfigs |->
     IF store[c].present /\ MemExpired(store[c], now)
       THEN [present |-> FALSE, requests |-> <<>>, expires |-> 0]
       ELSE store[c]]

EmptyGateStore ==
  [c \in DOMAIN rateLimitConfigs |-> [present |-> FALSE, requests |-> <<>>, expires |-> 0]]

\* fetch, the /lock branch for GET and POST.
LockRoute(request, variant, store, secret, now, keyOk) ==
  IF request.method = "GET"
    THEN LET r == GateRate(store, "pages", now)
         IN IF ~r.res.allowed
              THEN TooMany(<<"rate">>, r.store)
              ELSE CreateRateLimitResponse(
                     Reply(200, "", "handleLockScreen", <<"rate", "route">>, r.store))
    ELSE LET csrfResult == CsrfMiddleware(request, secret, now, keyOk, {})
         IN IF ~csrfResult.valid
              THEN [Reply(csrfResult.status, "", "none", <<"csrf">>, store)
                      EXCEPT !.csrfError = csrfResult.error]
              ELSE LET r == GateRate(store, "auth", now)
                   IN IF ~r.res.allowed
                        THEN TooMany(<<"csrf", "rate">>, r.store)
                        ELSE LET s == LockSubmit(request, variant, secret, now)
                             IN CreateRateLimitResponse(
                                  [Reply(s.status, s.location, "handleLockSubmit",
                                         <<"csrf", "rate", "route">>, r.store)
                                     EXCEPT !.grant = s.grant])

\* handleOneTimeView: a throw of importKey reaches the catch block of fetch.
OneTimeView(request, store, secret, now, keyOk) ==
  IF ~TooOld(Age(now, request.url.seg), ViewMaxAgeMs) /\ ImportKeyThrows(secret, keyOk)
    THEN Unhandled(<<"route">>, store)
  ELSE IF ValidateOneTimeToken(secret, request.url.token, request.url.seg,
                               ViewMaxAgeMs, now)
    THEN Reply(200, "", "handleOneTimeView", <<"route">>, store)
  ELSE Reply(302, "/lock?error=expired", "handleOneTimeView", <<"route">>, store)

\* handleAdminPanel
AdminPanel(request, trace, store, secret, now, keyOk) ==
  IF ~TooOld(Age(now, request.url.seg), AdminMaxAgeMs) /\ ImportKeyThrows(secret, keyOk)
    THEN Unhandled(trace \o <<"route">>, store)
  ELSE IF ValidateAdminToken(secret, request.url.token, request.url.seg, now)
    THEN Reply(200, "", "handleAdminPanel", trace \o <<"route">>, store)
  ELSE Reply(302, "/admin?error=expired", "handleAdminPanel",
             trace \o <<"route">>, store)

\* fetch, the /admin branch for GET and POST.  handleAdminLogin calls
\* generateCSRFToken outside any try block.
AdminRoute(request, randomHex, trace, store, secret, now, keyOk) ==
  IF request.method = "GET"
    THEN LET r == GateRate(store, "pages", now)
         IN IF ~r.res.allowed
              THEN TooMany(trace \o <<"rate">>, r.store)
            ELSE IF ImportKeyThrows(secret, keyOk)
              THEN [Unhandled(trace \o <<"rate", "route">>, r.store)
                      EXCEPT !.limit = "allowed"]
            ELSE CreateRateLimitResponse(
                   [Reply(200, "", "handleAdminLogin",
                          trace \o <<"rate", "route">>, r.store)
                      EXCEPT !.csrfToken = GenerateCSRFToken(secret, now, randomHex)])
    ELSE LET csrfResult == CsrfMiddleware(request, secret, now, keyOk, {})
         IN IF ~csrfResult.valid
              THEN [Reply(csrfResult.status, "", "none", trace \o <<"csrf">>, store)
                      EXCEPT !.csrfError = csrfResult.error]
              ELSE LET r == GateRate(store, "auth", now)
                   IN IF ~r.res.allowed
                        THEN TooMany(trace \o <<"csrf", "rate">>, r.store)
                        ELSE LET s == AdminSubmit(request, secret, now, keyOk)
                             IN CreateRateLimitResponse(
                                  [Reply(s.status, s.location, "handleAdminSubmit",
                                         trace \o <<"csrf", "rate", "route">>, r.store)
                                     EXCEPT !.grant = s.grant])

\* fetch from requireAuth on.
Guarded(request, randomHex, store, secret, now, keyOk) ==
  LET authResponse == RequireAuth(request, secret, now, keyOk)
      trace == IF AuthBypass(request.path) THEN <<"bypass">>
               ELSE <<"bypass", "credential">>
  IN IF authResponse = 302 THEN Reply(302, "/lock", "none", trace, store)
     ELSE IF authResponse = 401 THEN Reply(401, "", "none", trace, store)
     ELSE IF IsApi(request.path)
       THEN LET r == GateRate(store,
                              IF request.path = "/api/search" THEN "search" ELSE "api",
                              now)
            IN IF ~r.res.allowed
                 THEN TooMany(trace \o <<"rate">>, r.store)
                 ELSE CreateRateLimitResponse(
                        Reply(200, "", "handleAPI", trace \o <<"rate", "route">>, r.store))
     ELSE IF request.path = "/"
       THEN Reply(200, "", "handleHomePage", trace \o <<"route">>, store)
     ELSE IF request.path = "/books"
       THEN Reply(200, "", "handleBooksPage", trace \o <<"route">>, store)
     ELSE IF request.path = "/admin" /\ request.method \in {"GET", "POST"}
       THEN AdminRoute(request, randomHex, trace, store, secret, now, keyOk)
     ELSE IF request.path = "/admin/api/x"
       THEN Reply(200, "", "handleAdminAPI", trace \o <<"route">>, store)
     ELSE IF request.path = "/admin/panel/t/ts"
       THEN AdminPanel(request, trace, store, secret, now, keyOk)
     ELSE Reply(404, "", "none", trace, store)

\* fetch of the worker.
Fetch(request, variant, randomHex, store, secret, now, keyOk) ==
  IF request.path = "/health"
    THEN Reply(200, "", "health", <<"route">>, store)
  ELSE IF request.path = "/admin/metrics"
    THEN Reply(200, "", "metrics", <<"route">>, store)
  ELSE IF request.path = "/lock" /\ request.method \in {"GET", "POST"}
    THEN LockRoute(request, variant, store, secret, now, keyOk)
  ELSE IF request.path = "/view/t/ts"
    THEN OneTimeView(request, store, secret, now, keyOk)
  ELSE Guarded(request, randomHex, store, secret, now, keyOk)

\* No request is being answered.
NoReq == [route |-> "none"]

----------------------------------------------------------------------------
(* Session revocation (auth/gate.js): values                               *)

\* The bearer token `${timestamp}:${signature}` for an instant.
SessionToken(t) ==
  [parts |-> 2, ts |-> Canon(t), sig |-> GenerateTokenSignature(Canon(t), SECRET_SEED)]

\* getBlacklistKey, and the key invalidateAllSessions writes.
GetBlacklistKey(token) == <<"session_blacklist", token>>
GlobalKey == <<"global_session_invalidation", NoBearer>>

\* The data stored under a key: {blacklisted: true, timestamp} for a token,
\* {timestamp, reason} for the global key, whose blacklisted is undefined.
\* NoSessEntry stands for null.
NoSessEntry ==
  [present |-> FALSE, blacklisted |-> FALSE, timestamp |-> 0, expires |-> 0]

\* An expiry test that already hides the entry at its expiry instant.
SessExpiredEarly(store, key, now) ==
  key \in DOMAIN store /\ now >= store[key].expires

\* An entry of the map is there and its expiry has passed.
SessExpired(store, key, now) ==
  key \in DOMAIN store /\ now > store[key].expires

\* storage.get(key).  InMemoryStorage answers null for a missing or expired
\* entry; DurableObjectsStorage answers null when the fetch throws or the
\* response is not ok.
SessGet(store, key, kind, now, fault) ==
  IF key \notin DOMAIN store THEN NoSessEntry
  ELSE IF kind = "durable" THEN (IF fault THEN NoSessEntry ELSE store[key])
  ELSE IF SessExpired(store, key, now) THEN NoSessEntry
  ELSE store[key]

\* What the same call leaves in the map: InMemoryStorage.get deletes the
\* expired entry it met.
SessGetStore(store, key, kind, now) ==
  IF kind = "memory" /\ SessExpired(store, key, now)
    THEN [k \in DOMAIN store \ {key} |-> store[k]] ELSE store

\* storage.set(key, data, ttl), one that did not throw.
SessSet(store, key, blacklisted, ttl, now) ==
  [k \in DOMAIN store \cup {key} |->
     IF k = key THEN [present |-> TRUE, blacklisted |-> blacklisted,
                      timestamp |-> now, expires |-> now + ttl]
                ELSE store[k]]

\* storage.cleanup(): InMemoryStorage deletes the expired entries (created
\* is never written); DurableObjectsStorage does nothing.
SessCleanup(store, kind, now) ==
  IF kind = "durable" THEN store
  ELSE [k \in {q \in DOMAIN store : ~SessExpired(store, q, now)} |-> store[k]]

\* isSessionBlacklisted: !!result?.blacklisted; an error on the way ends
\* in the catch block's `return false`.
IsSessionBlacklisted(store, token, kind, now, fault) ==
  SessGet(store, GetBlacklistKey(token), kind, now, fault).blacklisted

\* extractSessionTimestamp: parseInt(parts[0], 10), null for NaN.
ExtractSessionTimestamp(token) ==
  IF token.parts # 2 THEN ParseInt(NotANumber) ELSE ParseInt(token.ts)

\* isSessionGloballyInvalid.
IsSessionGloballyInvalid(store, sessionTimestamp, kind, now, fault) ==
  LET invalidation == SessGet(store, GlobalKey, kind, now, fault)
  IN IF ~invalidation.present THEN FALSE
     ELSE sessionTimestamp < invalidation.timestamp

\* No session call is being answered.
NoSess == [op |-> "none"]

\* No validateRateLimit call answered yet.
NoValidate == [called |-> FALSE]

\* new CleanupScheduler(memoryManager): no timer (timerId 0 is null), not
\* running.  pending are the timers set and not yet fired or cleared, each
\* with the time it is due; awaiting is the number of timer callbacks
\* suspended in await memoryManager.cleanup(); timers is the number of
\* setTimeout calls so far and the id of the latest timer; last is the
\* latest step the scheduler took.
NewScheduler ==
  [isRunning |-> FALSE, timerId |-> 0, pending |-> {}, awaiting |-> 0,
   timers |-> 0, last |-> "new"]

GateInit(seeds, keyOks) ==
  /\ envSeed \in seeds
  /\ emptyKeyOk \in keyOks
  /\ csrfIssued = {}
  /\ lastCsrf = NoCsrf
  /\ gateStore = EmptyGateStore
  /\ served = 0
  /\ lastReq = NoReq
  /\ derived = {}
  /\ blacklistStorage = [key \in {} |-> NoSessEntry]
  /\ lastSess = NoSess
  /\ revocations = [key \in {} |-> [at |-> 0, ttl |-> 0]]
  /\ rateLimitStore = [key \in {} |-> Absent]
  /\ lastValidate = NoValidate
  /\ cache = <<>>
  /\ lastCleanup = 0
  /\ sched = NewScheduler

----------------------------------------------------------------------------
(* Rate limiter: actions                                                   *)

RLInit(b) ==
  /\ backend = b
  /\ memoryStore = [k \in Keys |-> Absent]
  /\ heap = [o \in ObjIds |-> <<>>]
  /\ durable = [k \in Keys |-> [present |-> FALSE, requests |-> <<>>]]
  /\ chk = [s \in Slots |-> Idle]
  /\ started = 0
  /\ faults = 0
  /\ admitted = [k \in Keys |-> <<>>]
  /\ history = [k \in Keys |-> "clean"]

\* rateLimitMiddleware up to `await storageInstance.get(key)`: the key is
\* computed, now is read, and with the in-process map get has already run.
Begin(s, k) ==
  /\ NoneDone
  /\ started < MaxChecks
  /\ started' = started + 1
  /\ chk[s].pc = "idle"
  /\ \A t \in Slots : chk[t].pc = "idle" => s <= t
  /\ LET others == Others(s, k)
         ref == IF backend = "memory" THEN MemGet(memoryStore, k, clock) ELSE 0
         store2 == IF backend = "memory"
                     THEN MemGetStore(memoryStore, k, clock) ELSE memoryStore
         stored == IF backend = "memory"
                     THEN (IF ref = 0 THEN <<>> ELSE heap[ref])
                     ELSE (IF durable[k].present THEN durable[k].requests ELSE <<>>)
         chk2 == [t \in Slots |->
                    IF t = s
                      THEN [Idle EXCEPT
                              !.pc = IF backend = "memory" THEN "awaitGet" ELSE "fetchGet",
                              !.key = k, !.now = clock, !.ref = ref,
                              !.solo = (others = {}),
                              !.full = (Len(stored) >= ConfigOf(k).maxRequests),
                              !.stale = (CountNewer(stored,
                                           clock - ConfigOf(k).windowMs) = 0),
                              !.seen = CountNewer(admitted[k],
                                                  clock - ConfigOf(k).windowMs)]
                    ELSE IF t \in others THEN [chk[t] EXCEPT !.solo = FALSE]
                    ELSE chk[t]]
     IN /\ chk' = chk2
        /\ memoryStore' = store2
        /\ heap' = Collect(heap, store2, chk2)
        /\ history' = [history EXCEPT
                         ![k] = IF others = {} THEN @ ELSE Worse(@, "raced")]
  /\ UNCHANGED <<authVars, gateVars, sessVars, utilVars, rateLimitStore>>
  /\ UNCHANGED <<clock, backend, durable, faults, admitted>>

\* In-process map: the call resumes after the await on get; prune, test,
\* push and set run without suspension (InMemoryStorage.set has no await).
MemAfterGet(s) ==
  /\ NoneDone
  /\ backend = "memory"
  /\ chk[s].pc = "awaitGet"
  /\ LET k == chk[s].key
         cfg == ConfigOf(k)
         o == IF chk[s].ref = 0 THEN FreshObj ELSE chk[s].ref
         d == Decide(IF chk[s].ref = 0 THEN <<>> ELSE heap[chk[s].ref],
                     chk[s].now, cfg)
         store2 == IF d.res.allowed
                     THEN MemSet(memoryStore, k, o, EntryTTL(cfg), clock)
                     ELSE memoryStore
         chk2 == [chk EXCEPT ![s].pc = "done", ![s].res = d.res, ![s].ref = 0,
                             ![s].fetched = IF chk[s].ref = 0 THEN <<>>
                                            ELSE heap[chk[s].ref]]
     IN /\ chk' = chk2
        /\ memoryStore' = store2
        /\ heap' = Collect([heap EXCEPT ![o] = d.requests], store2, chk2)
        /\ admitted' = IF d.res.allowed THEN Admit(admitted, k, chk[s].now)
                       ELSE admitted
  /\ UNCHANGED <<authVars, gateVars, sessVars, utilVars, rateLimitStore>>
  /\ UNCHANGED <<clock, backend, durable, started, faults, history>>

\* Durable store: the get fetch is answered (or fails: DurableObjectsStorage
\* .get catches and returns null); the call then prunes, tests, pushes and
\* issues the set fetch.
DurableGet(s, fault) ==
  /\ NoneDone
  /\ backend = "durable"
  /\ fault => faults < MaxFaults
  /\ faults' = IF fault THEN faults + 1 ELSE faults
  /\ chk[s].pc = "fetchGet"
  /\ LET k == chk[s].key
         data == IF fault \/ ~durable[k].present THEN <<>> ELSE durable[k].requests
         d == Decide(data, chk[s].now, ConfigOf(k))
     IN /\ chk' = [chk EXCEPT
                     ![s].pc = IF d.res.allowed THEN "fetchSet" ELSE "done",
                     ![s].local = IF d.res.allowed THEN d.requests ELSE <<>>,
                     ![s].fetched = data,
                     ![s].res = d.res,
                     ![s].faultGet = fault]
        /\ history' = [history EXCEPT
                         ![k] = IF fault THEN "faulted" ELSE @]
  /\ UNCHANGED <<authVars, gateVars, sessVars, utilVars, rateLimitStore>>
  /\ UNCHANGED <<clock, backend, memoryStore, heap, durable, started, admitted>>

\* Durable store: the set fetch is applied, or throws (DurableObjectsStorage
\* .set rethrows) and the catch block of rateLimitMiddleware answers.
DurableSet(s, fault) ==
  /\ NoneDone
  /\ backend = "durable"
  /\ fault => faults < MaxFaults
  /\ faults' = IF fault THEN faults + 1 ELSE faults
  /\ chk[s].pc = "fetchSet"
  /\ LET k == chk[s].key
     IN IF fault
          THEN /\ chk' = [chk EXCEPT ![s].pc = "done", ![s].local = <<>>,
                                     ![s].res = FailOpen(ConfigOf(k), clock),
                                     ![s].faultSet = TRUE]
               /\ history' = [history EXCEPT ![k] = "faulted"]
               /\ UNCHANGED <<durable, admitted>>
          ELSE /\ chk' = [chk EXCEPT ![s].pc = "done", ![s].local = <<>>]
               /\ durable' = [durable EXCEPT
                                ![k] = [present |-> TRUE, requests |-> chk[s].local]]
               /\ admitted' = Admit(admitted, k, chk[s].now)
               /\ UNCHANGED history
  /\ UNCHANGED <<authVars, gateVars, sessVars, utilVars, rateLimitStore>>
  /\ UNCHANGED <<clock, backend, memoryStore, heap, started>>

\* The caller has consumed the result.
Finish(s) ==
  /\ chk[s].pc = "done"
  /\ chk' = [chk EXCEPT ![s] = Idle]
  /\ UNCHANGED <<authVars, gateVars, sessVars, utilVars, rateLimitStore>>
  /\ UNCHANGED <<clock, backend, memoryStore, heap, durable, started, faults, admitted, history>>

\* cleanupRateLimitStore: storageInstance.cleanup(); a no-op for the durable
\* store.
Cleanup ==
  /\ NoneDone
  /\ LET store2 == IF backend = "memory" THEN MemCleanup(memoryStore, clock)
                   ELSE memoryStore
     IN /\ memoryStore' = store2
        /\ heap' = Collect(heap, store2, chk)
  /\ UNCHANGED <<authVars, gateVars, sessVars, utilVars, rateLimitStore>>
  /\ UNCHANGED <<clock, backend, durable, chk, started, faults, admitted, history>>

\* Time passes; a suspended check resumes within MaxLag ticks.
Tick ==
  /\ NoneDone
  /\ clock < MaxClock
  /\ \A s \in Slots : chk[s].pc \in InFlightPc => clock - chk[s].now < MaxLag
  /\ clock' = clock + 1
  /\ UNCHANGED <<rlVars, authVars, gateVars, sessVars, utilVars, rateLimitStore>>

\* createRateLimitStorage(env) without RATE_LIMIT_DURABLE_OBJECTS: the
\* in-process map.
InitMem == clock = 0 /\ RLInit("memory") /\ AuthInit /\ GateInit({SECRET_SEED}, {FALSE})

NextMem ==
  \/ \E s \in Slots, k \in Keys : Begin(s, k)
  \/ \E s \in Slots : MemAfterGet(s)
  \/ \E s \in Slots : Finish(s)
  \/ Cleanup
  \/ Tick

SpecMem == InitMem /\ [][NextMem]_vars

\* createRateLimitStorage(env) with RATE_LIMIT_DURABLE_OBJECTS bound: the
\* durable store.
InitDur == clock = 0 /\ RLInit("durable") /\ AuthInit /\ GateInit({SECRET_SEED}, {FALSE})

NextDur ==
  \/ \E s \in Slots, k \in Keys : Begin(s, k)
  \/ \E s \in Slots, fault \in BOOLEAN : DurableGet(s, fault)
  \/ \E s \in Slots, fault \in BOOLEAN : DurableSet(s, fault)
  \/ \E s \in Slots : Finish(s)
  \/ Cleanup
  \/ Tick

SpecDur == InitDur /\ [][NextDur]_vars

----------------------------------------------------------------------------
(* Time-boxed tokens: actions                                              *)

\* The instants at which requests arrive: around issue and around each
\* maxAge later.
TokInstants ==
  {0} \cup {m + d : m \in {ViewMaxAgeMs, AdminMaxAgeMs}, d \in {0, 1}}

TokTick ==
  /\ Quiet
  /\ \E t \in TokInstants : t > clock /\ clock' = t
  /\ UNCHANGED <<rlVars, authVars, gateVars, sessVars, utilVars, rateLimitStore>>

\* handleLockSubmit (token flow), password accepted: the instance that
\* answers reads the verifying instance's clock, or one MaxSkew ahead of it.
HandleLockSubmit(skew) ==
  /\ Quiet
  /\ Cardinality(minted) < MaxIssued
  /\ LET timestamp == clock + skew
     IN minted' = minted \cup
          {[purpose |-> "onetime", seg |-> Canon(timestamp),
            token |-> GenerateOneTimeToken(SECRET_SEED, Canon(timestamp))]}
  /\ UNCHANGED <<clock, rlVars, gateVars, sessVars, utilVars, rateLimitStore, lastTok, accepted, jar, lastCookie>>

\* handleAdminSubmit, admin password accepted.
HandleAdminSubmit(skew) ==
  /\ Quiet
  /\ Cardinality(minted) < MaxIssued
  /\ LET timestamp == clock + skew
     IN minted' = minted \cup
          {[purpose |-> "admin", seg |-> Canon(timestamp),
            token |-> GenerateAdminToken(SECRET_SEED, Canon(timestamp))]}
  /\ UNCHANGED <<clock, rlVars, gateVars, sessVars, utilVars, rateLimitStore, lastTok, accepted, jar, lastCookie>>

\* What a caller can put in the two path segments.
KnownTokens == {x.token : x \in minted} \cup {EmptyToken, GuessToken}
SegNumbers == {x.seg.n : x \in minted} \cup {clock}
KnownSegs ==
  UNION {{Canon(n), Lead0(n), Trail(n)} : n \in SegNumbers} \cup {NotANumber}

\* GET /view/{token}/{timestamp}: handleOneTimeView.
HandleOneTimeView(token, timestamp) ==
  /\ Quiet
  /\ LET ok == ValidateOneTimeToken(SECRET_SEED, token, timestamp, ViewMaxAgeMs, clock)
         req == <<"view", token, timestamp>>
     IN /\ lastTok' = [route |-> "view", token |-> token, seg |-> timestamp,
                       now |-> clock, ok |-> ok, again |-> (req \in accepted)]
        /\ accepted' = IF ok THEN accepted \cup {req} ELSE accepted
  /\ UNCHANGED <<clock, rlVars, gateVars, sessVars, utilVars, rateLimitStore, minted, jar, lastCookie>>

\* GET /admin/panel/{token}/{timestamp}: handleAdminPanel.
HandleAdminPanel(token, timestamp) ==
  /\ Quiet
  /\ LET ok == ValidateAdminToken(SECRET_SEED, token, timestamp, clock)
         req == <<"admin", token, timestamp>>
     IN /\ lastTok' = [route |-> "admin", token |-> token, seg |-> timestamp,
                       now |-> clock, ok |-> ok, again |-> (req \in accepted)]
        /\ accepted' = IF ok THEN accepted \cup {req} ELSE accepted
  /\ UNCHANGED <<clock, rlVars, gateVars, sessVars, utilVars, rateLimitStore, minted, jar, lastCookie>>

TokAck ==
  /\ lastTok.route # "none"
  /\ lastTok' = NoTok
  /\ UNCHANGED <<clock, rlVars, gateVars, sessVars, utilVars, rateLimitStore, minted, accepted, jar, lastCookie>>

InitTok == clock = 0 /\ RLInit("memory") /\ AuthInit /\ GateInit({SECRET_SEED}, {FALSE})

NextTok ==
  \/ TokTick
  \/ \E skew \in {0, MaxSkew} : HandleLockSubmit(skew)
  \/ \E skew \in {0, MaxSkew} : HandleAdminSubmit(skew)
  \/ \E token \in KnownTokens, timestamp \in KnownSegs :
       HandleOneTimeView(token, timestamp)
  \/ \E token \in KnownTokens, timestamp \in KnownSegs :
       HandleAdminPanel(token, timestamp)
  \/ TokAck

SpecTok == InitTok /\ [][NextTok]_vars

----------------------------------------------------------------------------
(* Auth cookie: actions                                                    *)

\* The instants at which requests arrive: at, just after and just before
\* each UTC midnight.
CkInstants == {d * DayMs + o : d \in 0..MaxDay, o \in {0, 1, DayMs - 1}}

CkTick ==
  /\ Quiet
  /\ \E t \in CkInstants : t > clock /\ clock' = t
  /\ UNCHANGED <<rlVars, authVars, gateVars, sessVars, utilVars, rateLimitStore>>

\* A login at clock: createAuthCookie(generateDailyPassword(seed)).
LoginCookie ==
  /\ Quiet
  /\ Cardinality(jar) < MaxJar
  /\ LET password == GenerateDailyPassword(SECRET_SEED, "user", clock)
         made == CreateAuthCookie(password, clock)
     IN jar' = jar \cup {[value |-> made.value, expires |-> made.expires,
                          createdAt |-> clock]}
  /\ UNCHANGED <<clock, rlVars, gateVars, sessVars, utilVars, rateLimitStore, minted, lastTok, accepted, lastCookie>>

\* Cookie values a caller can send without knowing a password: none, an
\* undecodable or incomplete one, and any issued date paired with any hash
\* it has seen.
ForgedCookies ==
  {BadCookie(shape) : shape \in BadCookieShapes} \cup
  {[shape |-> "payload", issued |-> d, hash |-> h, pad |-> p] :
     d \in 0..MaxDay, h \in {c.value.hash : c \in jar} \cup {GuessHash},
     p \in {0, 2}}

Answer(cookieHeader, createdAt) ==
  [shape |-> cookieHeader.shape, issued |-> cookieHeader.issued,
   hash |-> cookieHeader.hash, pad |-> cookieHeader.pad, now |-> clock,
   ok |-> ValidateAuthCookie(cookieHeader, SECRET_SEED, clock),
   threw |-> ValidateAuthCookieCaught(cookieHeader, SECRET_SEED, clock) = "throw",
   createdAt |-> createdAt]

\* validateAuthCookie on a cookie createAuthCookie built.
ValidateIssued(c) ==
  /\ Quiet
  /\ lastCookie' = Answer(c.value, c.createdAt)
  /\ UNCHANGED <<clock, rlVars, gateVars, sessVars, utilVars, rateLimitStore, minted, lastTok, accepted, jar>>

\* validateAuthCookie on any other header.
ValidateForged(cookieHeader) ==
  /\ Quiet
  /\ lastCookie' = Answer(cookieHeader, -1)
  /\ UNCHANGED <<clock, rlVars, gateVars, sessVars, utilVars, rateLimitStore, minted, lastTok, accepted, jar>>

CkAck ==
  /\ lastCookie.shape # "none"
  /\ lastCookie' = NoCk
  /\ UNCHANGED <<clock, rlVars, gateVars, sessVars, utilVars, rateLimitStore, minted, lastTok, accepted, jar>>

InitCookie == clock = 0 /\ RLInit("memory") /\ AuthInit /\ GateInit({SECRET_SEED}, {FALSE})

NextCookie ==
  \/ CkTick
  \/ LoginCookie
  \/ \E c \in jar : ValidateIssued(c)
  \/ \E cookieHeader \in ForgedCookies : ValidateForged(cookieHeader)
  \/ CkAck

SpecCookie == InitCookie /\ [][NextCookie]_vars

----------------------------------------------------------------------------
(* CSRF tokens: actions                                                    *)

CsrfTick ==
  /\ Quiet
  /\ \E t \in {0, 1, CsrfMaxAgeMs, CsrfMaxAgeMs + 1} : t > clock /\ clock' = t
  /\ UNCHANGED <<rlVars, authVars, gateVars, sessVars, utilVars, rateLimitStore>>

\* generateCSRFToken(secret) returns a token.
IssueCsrf(randomHex) ==
  /\ Quiet
  /\ Cardinality(csrfIssued) < MaxCsrf
  /\ ~ImportKeyThrows(envSeed, emptyKeyOk)
  /\ csrfIssued' = csrfIssued \cup {GenerateCSRFToken(envSeed, clock, randomHex)}
  /\ UNCHANGED <<clock, rlVars, sessVars, utilVars, rateLimitStore, authVars, envSeed, emptyKeyOk, lastCsrf,
                 gateStore, served, lastReq, derived>>

\* verifyCSRFToken(token, secret) on an issued token.
VerifyIssuedCsrf(token) ==
  /\ Quiet
  /\ lastCsrf' = [CsrfCall EXCEPT
                    !.kind = "verify", !.token = token, !.genuine = TRUE,
                    !.now = clock,
                    !.ok = VerifyCSRFToken(token, envSeed, clock, emptyKeyOk)]
  /\ UNCHANGED <<clock, rlVars, sessVars, utilVars, rateLimitStore, authVars, envSeed, emptyKeyOk, csrfIssued,
                 gateStore, served, lastReq, derived>>

\* verifyCSRFToken(token, secret) on an issued token with one character
\* changed.
VerifyMangledCsrf(token) ==
  /\ Quiet
  /\ lastCsrf' = [CsrfCall EXCEPT
                    !.kind = "verify", !.token = token, !.mangled = TRUE,
                    !.now = clock,
                    !.ok = VerifyCSRFToken(token, envSeed, clock, emptyKeyOk)]
  /\ UNCHANGED <<clock, rlVars, sessVars, utilVars, rateLimitStore, authVars, envSeed, emptyKeyOk, csrfIssued,
                 gateStore, served, lastReq, derived>>

\* The tokens a caller can put in a channel: none, one nobody signed, any
\* issued one.
CsrfChoices == {NoCsrfToken, ForgedCsrfToken} \cup csrfIssued

CsrfRequests ==
  [method : {"GET", "HEAD", "OPTIONS", "POST", "DELETE"},
   path : {"/health", "/lock", "/admin", "/api/books"},
   header : CsrfChoices, cookie : CsrfChoices, form : CsrfChoices,
   formType : BOOLEAN]

\* csrfMiddleware(request, env, options): with the default skipPaths, or with
\* the worker's `skipPaths: []`.
CsrfCheck(request, skipPaths) ==
  /\ Quiet
  /\ lastCsrf' = [CsrfCall EXCEPT
                    !.kind = "check", !.now = clock, !.request = request,
                    !.skipPaths = skipPaths,
                    !.token = CsrfTokenOf(request),
                    !.res = CsrfMiddleware(request, envSeed, clock, emptyKeyOk,
                                           skipPaths)]
  /\ UNCHANGED <<clock, rlVars, sessVars, utilVars, rateLimitStore, authVars, envSeed, emptyKeyOk, csrfIssued,
                 gateStore, served, lastReq, derived>>

CsrfAck ==
  /\ lastCsrf.kind # "none"
  /\ lastCsrf' = NoCsrf
  /\ UNCHANGED <<clock, rlVars, sessVars, utilVars, rateLimitStore, authVars, envSeed, emptyKeyOk, csrfIssued,
                 gateStore, served, lastReq, derived>>

NextCsrf ==
  \/ CsrfTick
  \/ \E randomHex \in RandomHex : IssueCsrf(randomHex)
  \/ \E token \in csrfIssued : VerifyIssuedCsrf(token)
  \/ \E token \in UNION {Mangled(t) : t \in csrfIssued} : VerifyMangledCsrf(token)
  \/ /\ Quiet
     /\ \E request \in CsrfRequests, skipPaths \in {skipPathsDefault, {}} :
          CsrfCheck(request, skipPaths)
  \/ CsrfAck

SpecCsrf == InitMem /\ [][NextCsrf]_vars

----------------------------------------------------------------------------
(* Worker: actions                                                         *)

GateTick ==
  /\ Quiet
  /\ \E t \in {0, WinUnit, DayMs} : t > clock /\ clock' = t
  /\ UNCHANGED <<rlVars, authVars, gateVars, sessVars, utilVars, rateLimitStore>>

\* What a caller can send as a credential: nothing, a Bearer header or a
\* cfb_session cookie signed now or signed by nobody, an fbl_auth cookie a
\* login set.
Credentials ==
  {[bearer |-> NoBearer, session |-> NoBearer, auth |-> NoCookieHeader]} \cup
  {[bearer |-> b, session |-> NoBearer, auth |-> NoCookieHeader] :
     b \in {[parts |-> 2, ts |-> Canon(clock),
             sig |-> GenerateTokenSignature(Canon(clock), envSeed)],
            ForgedBearer}} \cup
  {[bearer |-> NoBearer, session |-> s, auth |-> NoCookieHeader] :
     s \in {[parts |-> 2, ts |-> Canon(clock),
             sig |-> GenerateSessionSignature(Canon(clock), envSeed)]}} \cup
  {[bearer |-> NoBearer, session |-> NoBearer, auth |-> c.value] : c \in jar}

\* What a caller can type: nothing, the user password of either day,
\* today's with blanks around it, today's admin password, a guess.
Passwords ==
  {Typed(GenerateDailyPassword(envSeed, "user", d * DayMs), FALSE) : d \in {0, 1}} \cup
  {Typed(NoPassword, FALSE),
   Typed(GenerateDailyPassword(envSeed, "user", clock), TRUE),
   Typed(GenerateAdminPassword(ADMIN_SECRET_SEED, clock), FALSE),
   Typed([seed |-> "guess", admin |-> FALSE, day |-> 0], FALSE)}

Urls ==
  {[token |-> x.token, seg |-> x.seg] : x \in minted} \cup
  {[token |-> GuessToken, seg |-> Canon(clock)]}

GateRequests ==
  {[NoGateRequest EXCEPT !.path = p, !.bearer = c.bearer,
                         !.session = c.session, !.auth = c.auth,
                         !.acceptHtml = a] :
     p \in {"/admin/metrics", "/api/books", "/api/search", "/",
            "/admin/api/x", "/unknown"},
     c \in Credentials, a \in BOOLEAN} \cup
  {[NoGateRequest EXCEPT !.path = p, !.method = m, !.acceptHtml = TRUE] :
     p \in {"/health", "/lock", "/admin"}, m \in {"GET", "DELETE"}} \cup
  {[NoGateRequest EXCEPT !.path = p, !.url = u, !.acceptHtml = TRUE] :
     p \in {"/view/t/ts", "/admin/panel/t/ts"}, u \in Urls} \cup
  {[NoGateRequest EXCEPT !.method = "POST", !.path = p, !.cookie = k,
                         !.formType = TRUE, !.password = w,
                         !.acceptHtml = TRUE] :
     p \in {"/lock", "/admin"}, k \in CsrfChoices, w \in Passwords} \cup
  {[NoGateRequest EXCEPT !.method = "POST", !.path = p, !.form = f,
                         !.formType = TRUE, !.password = w,
                         !.acceptHtml = TRUE] :
     p \in {"/lock", "/admin"}, f \in csrfIssued, w \in Passwords}

\* One request through fetch, with what the client keeps of the answer.
WorkerFetch(request, variant, randomHex, sweep) ==
  /\ served < MaxServed
  /\ LET swept == IF sweep THEN GateCleanup(gateStore, clock) ELSE gateStore
         out == Fetch(request, variant, randomHex, swept, envSeed, clock,
                      emptyKeyOk)
         csrfIssued2 == IF out.csrfToken = NoCsrfToken THEN csrfIssued
                        ELSE csrfIssued \cup {out.csrfToken}
         made == CreateAuthCookie(Trim(request.password).pw, clock)
         jar2 == IF out.grant # "cookie" THEN jar
                 ELSE jar \cup {[value |-> made.value, expires |-> made.expires,
                                 createdAt |-> clock]}
         minted2 ==
           IF out.grant = "token"
             THEN minted \cup {[purpose |-> "onetime", seg |-> Canon(clock),
                                token |-> GenerateOneTimeToken(envSeed, Canon(clock))]}
           ELSE IF out.grant = "admin"
             THEN minted \cup {[purpose |-> "admin", seg |-> Canon(clock),
                                token |-> GenerateAdminToken(envSeed, Canon(clock))]}
           ELSE minted
     IN /\ Cardinality(csrfIssued2) <= MaxCsrf
        /\ Cardinality(jar2) <= MaxJar
        /\ Cardinality(minted2) <= MaxIssued
        /\ gateStore' = out.store
        /\ csrfIssued' = csrfIssued2
        /\ jar' = jar2
        /\ minted' = minted2
        /\ lastReq' = [route |-> "fetch", request |-> request,
                       variant |-> variant, now |-> clock,
                       status |-> out.status, location |-> out.location,
                       handler |-> out.handler, trace |-> out.trace,
                       grant |-> out.grant, csrfError |-> out.csrfError,
                       csrfToken |-> out.csrfToken,
                       limit |-> out.limit, rateHeaders |-> out.rateHeaders]
  /\ served' = served + 1
  /\ UNCHANGED <<clock, rlVars, sessVars, utilVars, rateLimitStore, lastTok, accepted, lastCookie, envSeed,
                 emptyKeyOk, lastCsrf, derived>>

GateAck ==
  /\ lastReq.route # "none"
  /\ lastReq' = NoReq
  /\ UNCHANGED <<clock, rlVars, sessVars, utilVars, rateLimitStore, authVars, envSeed, emptyKeyOk, csrfIssued,
                 lastCsrf, gateStore, served, derived>>

\* SECRET_SEED is set or not; what importKey does with an empty key only
\* shows when it is not.
InitGate ==
  /\ clock = 0 /\ RLInit("memory") /\ AuthInit
  /\ GateInit({SECRET_SEED, ""}, BOOLEAN)
  /\ (envSeed # "" => ~emptyKeyOk)

NextGate ==
  \/ GateTick
  \/ /\ Quiet
     /\ \E request \in GateRequests :
          \E variant \in IF request.path = "/lock" /\ request.method = "POST"
                           THEN {"cookie", "token"} ELSE {"cookie"},
             randomHex \in IF request.path = "/admin" /\ request.method = "GET"
                             THEN RandomHex ELSE {"r1"},
             sweep \in IF GateCleanup(gateStore, clock) = gateStore
                         THEN {FALSE} ELSE BOOLEAN :
            WorkerFetch(request, variant, randomHex, sweep)
  \/ GateAck

SpecGate == InitGate /\ [][NextGate]_vars

----------------------------------------------------------------------------
(* Daily password: actions                                                 *)

MaxDerived == 3

PwTick ==
  /\ \E t \in {0, 1, DayMs - 1, DayMs, DayMs + 1} : t > clock /\ clock' = t
  /\ UNCHANGED <<rlVars, authVars, gateVars, sessVars, utilVars, rateLimitStore>>

\* generateDailyPassword(secretSeed, type) at the instant clock; without a
\* seed it throws.
DerivePassword(secretSeed, type) ==
  /\ Cardinality(derived) < MaxDerived
  /\ derived' = derived \cup
       {[seed |-> secretSeed, type |-> type, at |-> clock,
         threw |-> (secretSeed = ""),
         password |-> IF secretSeed = "" THEN NoPassword
                      ELSE GenerateDailyPassword(secretSeed, type, clock)]}
  /\ UNCHANGED <<clock, rlVars, sessVars, utilVars, rateLimitStore, authVars, envSeed, emptyKeyOk, csrfIssued,
                 lastCsrf, gateStore, served, lastReq>>

NextPw ==
  \/ PwTick
  \/ \E secretSeed \in {SECRET_SEED, ADMIN_SECRET_SEED, ""},
        type \in {"user", "admin", "onetime"} : DerivePassword(secretSeed, type)

SpecPw == InitMem /\ [][NextPw]_vars

----------------------------------------------------------------------------
(* Session revocation: actions                                             *)

\* Number of instants at which a session token is signed.
MaxSessions == 2

\* Time passes: the signing instants, the bearer token's five minutes and
\* the entry's 24 hours, each with the millisecond after it.
SessTick ==
  /\ Quiet
  /\ \E t \in 0..(MaxSessions - 1) \cup
             {5 * 60 * 1000, 5 * 60 * 1000 + 1, DayMs, DayMs + 1} :
       t > clock /\ clock' = t
  /\ UNCHANGED <<rlVars, authVars, gateVars, sessVars, utilVars, rateLimitStore>>

\* The answer of a session call.  revoked: the map holds the token's entry.
SessAnswer(op, token, fault, result) ==
  [op |-> op, token |-> token, now |-> clock, fault |-> fault,
   revoked |-> GetBlacklistKey(token) \in DOMAIN blacklistStorage,
   result |-> result]

\* The history of successful sets.
Revoke(key, ttl) ==
  [k \in DOMAIN revocations \cup {key} |->
     IF k = key THEN [at |-> clock, ttl |-> ttl] ELSE revocations[k]]

\* blacklistSession(token, env, ttl): false when storage.set throws.
BlacklistSession(token, ttl, fault) ==
  /\ Quiet
  /\ LET threw == backend = "durable" /\ fault
     IN /\ blacklistStorage' =
             IF threw THEN blacklistStorage
             ELSE SessSet(blacklistStorage, GetBlacklistKey(token), TRUE, ttl, clock)
        /\ revocations' =
             IF threw THEN revocations ELSE Revoke(GetBlacklistKey(token), ttl)
        /\ lastSess' = SessAnswer("blacklistSession", token, fault, ~threw)
  /\ UNCHANGED <<clock, rlVars, authVars, gateVars, utilVars, rateLimitStore>>

\* invalidateAllSessions(env).
InvalidateAllSessions(fault) ==
  /\ Quiet
  /\ LET threw == backend = "durable" /\ fault
     IN /\ blacklistStorage' =
             IF threw THEN blacklistStorage
             ELSE SessSet(blacklistStorage, GlobalKey, FALSE, DayMs, clock)
        /\ revocations' = IF threw THEN revocations ELSE Revoke(GlobalKey, DayMs)
        /\ lastSess' = SessAnswer("invalidateAllSessions", NoBearer, fault, ~threw)
  /\ UNCHANGED <<clock, rlVars, authVars, gateVars, utilVars, rateLimitStore>>

\* isSessionBlacklisted(token, env).
CheckBlacklisted(token, fault) ==
  /\ Quiet
  /\ blacklistStorage' =
       SessGetStore(blacklistStorage, GetBlacklistKey(token), backend, clock)
  /\ lastSess' =
       SessAnswer("isSessionBlacklisted", token, fault,
                  IsSessionBlacklisted(blacklistStorage, token, backend, clock, fault))
  /\ UNCHANGED <<clock, rlVars, authVars, gateVars, utilVars, rateLimitStore, revocations>>

\* isSessionGloballyInvalid(extractSessionTimestamp(token), env).
CheckGloballyInvalid(token, fault) ==
  /\ Quiet
  /\ blacklistStorage' = SessGetStore(blacklistStorage, GlobalKey, backend, clock)
  /\ lastSess' =
       SessAnswer("isSessionGloballyInvalid", token, fault,
                  IsSessionGloballyInvalid(blacklistStorage,
                                           ExtractSessionTimestamp(token).v,
                                           backend, clock, fault))
  /\ UNCHANGED <<clock, rlVars, authVars, gateVars, utilVars, rateLimitStore, revocations>>

\* requireAuth on GET /api/books with Authorization: Bearer token; result
\* is whether it answered null, which lets the request through.
PresentSession(token) ==
  /\ Quiet
  /\ LET request == [NoGateRequest EXCEPT !.path = "/api/books", !.bearer = token]
     IN lastSess' = SessAnswer("requireAuth", token, FALSE,
                               RequireAuth(request, envSeed, clock, emptyKeyOk) = 0)
  /\ UNCHANGED <<clock, rlVars, authVars, gateVars, utilVars, rateLimitStore, blacklistStorage, revocations>>

\* cleanupExpiredSessions(env).
CleanupExpiredSessions ==
  /\ Quiet
  /\ blacklistStorage' = SessCleanup(blacklistStorage, backend, clock)
  /\ blacklistStorage' # blacklistStorage
  /\ UNCHANGED <<clock, rlVars, authVars, gateVars, utilVars, rateLimitStore, lastSess, revocations>>

SessAck ==
  /\ lastSess.op # "none"
  /\ lastSess' = NoSess
  /\ UNCHANGED <<clock, rlVars, authVars, gateVars, utilVars, rateLimitStore, blacklistStorage, revocations>>

InitSession ==
  /\ clock = 0 /\ AuthInit /\ GateInit({SECRET_SEED}, {FALSE})
  /\ \E b \in {"memory", "durable"} : RLInit(b)

NextSession ==
  \/ SessTick
  \/ \E t \in 0..(MaxSessions - 1), fault \in BOOLEAN :
       /\ t <= clock
       /\ \/ \E ttl \in {5 * 60 * 1000, DayMs} :
               BlacklistSession(SessionToken(t), ttl, fault)
          \/ CheckBlacklisted(SessionToken(t), fault)
          \/ CheckGloballyInvalid(SessionToken(t), fault)
          \/ PresentSession(SessionToken(t))
  \/ \E fault \in BOOLEAN : InvalidateAllSessions(fault)
  \/ CleanupExpiredSessions
  \/ SessAck

SpecSession == InitSession /\ [][NextSession]_vars

----------------------------------------------------------------------------
(* The in-process map under checks for many clients                        *)

\* Number of distinct clients (hashed IPs) that send requests.
MaxKeys == 3

\* The maxEntries initializeMemoryManagement would register for the map,
\* 5000, scaled to one less than the clients the model has.
maxEntries == MaxKeys - 1

MapTick ==
  /\ Quiet
  /\ clock < MaxClock
  /\ clock' = clock + 1
  /\ UNCHANGED <<rlVars, authVars, gateVars, sessVars, utilVars, rateLimitStore>>

\* rateLimitMiddleware(request, env, rateLimitConfigs.api) on
\* InMemoryStorage for the client key, with no other check in between: get
\* (which deletes an expired entry), the decision, and set when allowed.  A
\* denied check has filtered the stored requests in place.
MapCheck(key) ==
  /\ Quiet
  /\ LET cfg == rateLimitConfigs.api
         found == key \in DOMAIN rateLimitStore /\ ~MemExpired(rateLimitStore[key], clock)
         d == Decide(IF found THEN rateLimitStore[key].data ELSE <<>>, clock, cfg)
     IN rateLimitStore' =
          IF ~d.res.allowed
            THEN [rateLimitStore EXCEPT ![key].data = d.requests]
            ELSE [k \in DOMAIN rateLimitStore \cup {key} |->
                    IF k = key THEN [data |-> d.requests,
                                     expires |-> clock + EntryTTL(cfg)]
                               ELSE rateLimitStore[k]]
  /\ UNCHANGED <<clock, rlVars, authVars, gateVars, sessVars, utilVars>>

\* The worker's periodic sweep: cleanupRateLimitStore, which is
\* InMemoryStorage.cleanup, and memoryManager.cleanup, which has no
\* 'rateLimits' store to trim: initializeMemoryManagement runs once, on the
\* first request, before any InMemoryStorage has set
\* globalThis.rateLimitStore.
MapSweep ==
  /\ Quiet
  /\ rateLimitStore' =
       [k \in {q \in DOMAIN rateLimitStore : ~MemExpired(rateLimitStore[q], clock)} |->
          rateLimitStore[k]]
  /\ rateLimitStore' # rateLimitStore
  /\ UNCHANGED <<clock, rlVars, authVars, gateVars, sessVars, utilVars>>

NextMap ==
  \/ MapTick
  \/ \E key \in 1..MaxKeys : MapCheck(key)
  \/ MapSweep

SpecMap == InitMem /\ [][NextMap]_vars

----------------------------------------------------------------------------
(* Rate limiter: properties                                                *)

DoneSlots == {s \in Slots : chk[s].pc = "done"}
MaxOf(s) == ConfigOf(chk[s].key).maxRequests

\* C1: sequential, fault-free checks on one key: when maxRequests allowed
\* checks have timestamps inside the trailing window of a check, that check
\* is denied and reports remaining = 0.
C1_DeniedAtLimit ==
  \A s \in DoneSlots :
    (history[chk[s].key] = "clean" /\ chk[s].seen >= MaxOf(s))
      => (~chk[s].res.allowed /\ chk[s].res.remaining = 0)

C1_Witness ==
  \E s \in DoneSlots :
    /\ history[chk[s].key] = "clean"
    /\ chk[s].seen >= MaxOf(s)
    /\ ~chk[s].res.allowed

\* C2: a check that runs alone on its key and finds every stored timestamp
\* at or before now - windowMs is allowed, also after the key had reached
\* its limit.
C2_AllowedAfterWindow ==
  \A s \in DoneSlots :
    (chk[s].solo /\ chk[s].stale) => chk[s].res.allowed

C2_Witness ==
  \E s \in DoneSlots :
    chk[s].solo /\ chk[s].stale /\ chk[s].full /\ chk[s].res.allowed

\* C3: a check during which a storage call faulted is answered allowed.
C3_FailOpen ==
  \A s \in DoneSlots :
    (chk[s].faultGet \/ chk[s].faultSet) => chk[s].res.allowed

C3_Witness ==
  \E s \in DoneSlots : chk[s].faultSet /\ chk[s].res.allowed

\* C4: with the in-process map more than maxRequests requests are admitted
\* inside one window only when checks on the key were in flight together;
\* two such checks are then both allowed with one slot left.
C4_OverAdmissionOnlyByRace ==
  \A k \in Keys : OverAdmitted(k) => history[k] = "raced"

C4_Witness ==
  \E s \in DoneSlots :
    /\ backend = "memory"
    /\ ~chk[s].solo
    /\ chk[s].seen = MaxOf(s) - 1
    /\ chk[s].res.allowed
    /\ OverAdmitted(chk[s].key)

\* C5: with the durable store and no storage fault, never more than
\* maxRequests requests are admitted inside one window.
C5_DurableNeverOverAdmits ==
  \A k \in Keys :
    (backend = "durable" /\ history[k] # "faulted") => ~OverAdmitted(k)

----------------------------------------------------------------------------
(* Tokens and cookies: properties                                          *)

Answered == lastTok.route # "none"
MaxAgeOf(route) == IF route = "admin" THEN AdminMaxAgeMs ELSE ViewMaxAgeMs
SignedFor(route, seg) ==
  IF route = "admin" THEN GenerateAdminToken(SECRET_SEED, seg)
                     ELSE GenerateOneTimeToken(SECRET_SEED, seg)
CorrectlySigned == ~ParseInt(lastTok.seg).nan /\ lastTok.token = SignedFor(lastTok.route, lastTok.seg)
AgeNow == lastTok.now - ParseInt(lastTok.seg).v

C7_AcceptedIffFresh ==
  (Answered /\ CorrectlySigned) => (lastTok.ok <=> AgeNow <= MaxAgeOf(lastTok.route))

\* A token exactly maxAge old has been accepted.
C7_Witness ==
  Answered /\ CorrectlySigned /\ AgeNow = MaxAgeOf(lastTok.route) /\ lastTok.ok

\* C8: a token whose timestamp lies in the future of the verifier's clock is
\* rejected, even when its signature is correct.
C8_NegativeAgeRejected ==
  (Answered /\ ~ParseInt(lastTok.seg).nan /\ AgeNow < 0) => ~lastTok.ok

C10_BoundToTimestamp ==
  (Answered /\ lastTok.ok) =>
    \E x \in minted :
      /\ x.token = lastTok.token
      /\ x.seg = lastTok.seg
      /\ x.purpose = (IF lastTok.route = "admin" THEN "admin" ELSE "onetime")

\* An expired token has been presented with a fresh timestamp segment and
\* refused.
C10_Witness ==
  /\ Answered
  /\ ~lastTok.ok
  /\ AgeNow <= MaxAgeOf(lastTok.route)
  /\ \E x \in minted :
       /\ x.token = lastTok.token
       /\ x.seg # lastTok.seg
       /\ lastTok.now - x.seg.n > MaxAgeOf(lastTok.route)

----------------------------------------------------------------------------
(* CSRF, gate and login: properties                                        *)

\* C11: a token generateCSRFToken returned verifies under the same secret
\* while it is at most 30 minutes old, and an issued token with one character
\* of its timestamp, random or signature part changed never verifies.
C11_CsrfRoundTrip ==
  /\ (lastCsrf.kind = "verify" /\ lastCsrf.genuine) =>
       (lastCsrf.ok <=> lastCsrf.now - lastCsrf.token.ts.n <= CsrfMaxAgeMs)
  /\ (lastCsrf.kind = "verify" /\ lastCsrf.mangled) => ~lastCsrf.ok

\* A token exactly 30 minutes old has verified.
C11_Witness ==
  /\ lastCsrf.kind = "verify"
  /\ lastCsrf.genuine
  /\ lastCsrf.now - lastCsrf.token.ts.n = CsrfMaxAgeMs
  /\ lastCsrf.ok

\* The CSRF check ran on the request and was not skipped.
CsrfApplied ==
  lastCsrf.kind = "check" /\ ~CsrfSkipped(lastCsrf.request, lastCsrf.skipPaths)

Verifies(token) == VerifyCSRFToken(token, envSeed, lastCsrf.now, emptyKeyOk)

\* C12: a state-changing request passes the CSRF check only if one and the
\* same token is in the csrf-token cookie and in the X-CSRF-Token header or
\* the csrf-token form field.
C12_DoubleSubmit ==
  (CsrfApplied /\ lastCsrf.res.valid) =>
    /\ lastCsrf.request.cookie.parts # 0
    /\ \/ lastCsrf.request.header = lastCsrf.request.cookie
       \/ lastCsrf.request.form = lastCsrf.request.cookie

\* C13: a state-changing request whose X-CSRF-Token header or csrf-token form
\* field holds a token that does not verify is rejected, even when the cookie
\* holds a valid token.
C13_SubmittedValueVerified ==
  (/\ CsrfApplied
   /\ \/ lastCsrf.request.header.parts # 0 /\ ~Verifies(lastCsrf.request.header)
      \/ /\ lastCsrf.request.form.parts # 0
         /\ lastCsrf.request.formType
         /\ ~Verifies(lastCsrf.request.form))
  => ~lastCsrf.res.valid

\* A request fetch has answered.
Fetched == lastReq.route = "fetch"

\* The answer is the CSRF check's rejection.
CsrfRejected == lastReq.csrfError # ""

\* C14: a request with a safe method (GET, HEAD, OPTIONS) or to an
\* allow-listed endpoint (health check, lock screen, login submission
\* POST /lock) is never rejected for a missing or invalid CSRF token.
C14_SafeAndAllowListedSkipCsrf ==
  (/\ Fetched
   /\ \/ lastReq.request.method \in skipMethods
      \/ lastReq.request.path \in {"/health", "/lock"})
  => ~CsrfRejected

\* The request carries a credential a validator of the repository accepts:
\* a Bearer token, a cfb_session cookie or an fbl_auth cookie.
HoldsCredential ==
  \/ ValidateSessionToken(lastReq.request, envSeed, lastReq.now, emptyKeyOk)
  \/ ValidateAuthCookie(lastReq.request.auth, envSeed, lastReq.now)

\* C15: a request whose path is outside the bypass list and that carries no
\* valid credential never reaches a route handler: it is answered 401 when
\* the path is under /api/ or the request does not accept text/html, and 302
\* to /lock otherwise.
C15_NoCredentialNoHandler ==
  (Fetched /\ ~AuthBypass(lastReq.request.path) /\ ~HoldsCredential) =>
    /\ lastReq.handler = "none"
    /\ IF IsApi(lastReq.request.path) \/ ~lastReq.request.acceptHtml
         THEN lastReq.status = 401
         ELSE lastReq.status = 302 /\ lastReq.location = "/lock"

\* requireAuth turned the request away.
TurnedAway ==
  \/ lastReq.status = 401
  \/ lastReq.status = 302 /\ lastReq.location = "/lock"

\* C16: a request to a protected route that carries an auth cookie
\* validateAuthCookie accepts is admitted: it is neither redirected to /lock
\* nor answered 401.
C16_AuthCookieAdmitted ==
  (/\ Fetched
   /\ ~AuthBypass(lastReq.request.path)
   /\ ValidateAuthCookie(lastReq.request.auth, envSeed, lastReq.now))
  => ~TurnedAway

\* The place of a stage in bypass list, CSRF check, rate check, credential
\* check, route.
StageRank(stage) ==
  CASE stage = "bypass" -> 1
    [] stage = "csrf" -> 2
    [] stage = "rate" -> 3
    [] stage = "credential" -> 4
    [] stage = "route" -> 5

\* C17: the stages a request goes through come in the order bypass list,
\* CSRF check, rate check, credential check, route, and no credential is
\* evaluated for a request the rate limiter denies.
C17_StagesInOrder ==
  Fetched =>
    /\ \A i, j \in DOMAIN lastReq.trace :
         i < j => StageRank(lastReq.trace[i]) < StageRank(lastReq.trace[j])
    /\ lastReq.status = 429 =>
         \A i \in DOMAIN lastReq.trace : lastReq.trace[i] # "credential"

\* fetch has answered a login submission, POST /lock.
LoginAnswered ==
  Fetched /\ lastReq.request.path = "/lock" /\ lastReq.request.method = "POST"

\* The text the user password of the UTC day of the request is.
TodaysPassword ==
  Typed([seed |-> envSeed, admin |-> FALSE, day |-> lastReq.now \div DayMs], FALSE)

\* The submitted password, blanks around it removed, is the password of the
\* current UTC day.
RightPassword ==
  envSeed # "" /\ Trim(lastReq.request.password) = TodaysPassword

----------------------------------------------------------------------------
(* Daily password: properties                                              *)

\* The role a type selects: AuthType.ADMIN or any other.
RoleOf(type) == IF type = "admin" THEN "admin" ELSE "user"

----------------------------------------------------------------------------
(* Missing secret: properties                                              *)

\* Answering the login submission took the secret: verifyCSRFToken signed
\* with it, or handleLockSubmit got as far as generateDailyPassword.
SecretNeeded ==
  /\ LoginAnswered
  /\ \/ lastReq.csrfError = "Invalid CSRF token"
     \/ /\ lastReq.handler = "handleLockSubmit"
        /\ Trim(lastReq.request.password).pw # NoPassword

\* C20: with SECRET_SEED unset, a login submission that needs the secret is
\* answered with a 5xx status, not with the answer an invalid credential
\* gets.
C20_MissingSecretIsServerError ==
  (SecretNeeded /\ envSeed = "") => lastReq.status >= 500

----------------------------------------------------------------------------
(* Auth cookie: failing closed                                             *)

\* C21: validateAuthCookie fails closed on bad input: for a missing header,
\* an empty header, a header without the auth cookie, a value that is not
\* decodable base64 JSON, or a payload lacking issued or hash, it returns
\* false and never throws.
C21_BadCookieFailsClosed ==
  lastCookie.shape \in BadCookieShapes => (~lastCookie.ok /\ ~lastCookie.threw)

\* A value atob or JSON.parse rejects has been answered with false.
C21_Witness ==
  lastCookie.shape \in {"garbled", "notjson"} /\ ~lastCookie.ok /\ ~lastCookie.threw

----------------------------------------------------------------------------
(* Session revocation: properties                                          *)

\* C22: authentication never fails open on a storage fault: when the
\* storage layer faults during the blacklist check or the
\* global-invalidation check, the session is not treated as valid because
\* of the fault: a session the store holds as revoked is still reported
\* revoked.
C22_LookupFaultFailsClosed ==
  /\ (/\ lastSess.op = "isSessionBlacklisted"
      /\ lastSess.fault /\ lastSess.revoked) => lastSess.result
  /\ (/\ lastSess.op = "isSessionGloballyInvalid"
      /\ lastSess.fault
      /\ GlobalKey \in DOMAIN blacklistStorage
      /\ ExtractSessionTimestamp(lastSess.token).v <
           blacklistStorage[GlobalKey].timestamp) => lastSess.result

\* The session token was revoked on the UTC day of the request:
\* blacklistSession stored its entry that day, or invalidateAllSessions ran
\* that day after the token was signed.
RevokedToday ==
  \/ /\ lastSess.revoked
     /\ GetUTCDateString(blacklistStorage[GetBlacklistKey(lastSess.token)].timestamp) =
          GetUTCDateString(lastSess.now)
  \/ /\ GlobalKey \in DOMAIN blacklistStorage
     /\ ExtractSessionTimestamp(lastSess.token).v < blacklistStorage[GlobalKey].timestamp
     /\ GetUTCDateString(blacklistStorage[GlobalKey].timestamp) =
          GetUTCDateString(lastSess.now)

\* C23: same-day revocation: once blacklistSession(token) has returned
\* true, or invalidateAllSessions has run after the token was created, the
\* gate no longer admits a request that presents that session token, for
\* the rest of that day.
C23_RevokedSessionNotAdmitted ==
  (lastSess.op = "requireAuth" /\ RevokedToday) => ~lastSess.result

----------------------------------------------------------------------------
(* Background sweep: properties                                            *)

\* C24: the background sweep is idempotent and non-corrupting:
\* InMemoryStorage.cleanup removes exactly the entries whose expiry time has
\* passed, leaves the data and expiry of every other entry unchanged, and
\* gives the same map whether it runs once or many times in a row; never
\* running it changes no check result (what get answers, now or later, is
\* the same with and without the sweep).
C24_SweepIdempotent ==
  LET swept == MemCleanup(memoryStore, clock)
  IN /\ \A k \in Keys :
          swept[k] = IF memoryStore[k].data # 0 /\ clock > memoryStore[k].expires
                       THEN Absent ELSE memoryStore[k]
     /\ MemCleanup(swept, clock) = swept
     /\ \A k \in Keys, t \in clock..(MaxClock + 1) :
          /\ MemGet(swept, k, t) = MemGet(memoryStore, k, t)
          /\ MemGetStore(swept, k, t)[k] = MemGetStore(memoryStore, k, t)[k]

\* A sweep that removes one entry and keeps another.
C24_Witness ==
  /\ backend = "memory"
  /\ \E k \in Keys : memoryStore[k].data # 0 /\ clock > memoryStore[k].expires
  /\ \E k \in Keys : memoryStore[k].data # 0 /\ clock <= memoryStore[k].expires
  /\ MemCleanup(memoryStore, clock) # memoryStore

----------------------------------------------------------------------------
(* CSRF: outcome of a rejected request                                     *)

\* C25: a missing CSRF token and an invalid CSRF token give the caller the
\* same outcome class: in both cases csrfMiddleware reports valid = false
\* with a response of status 403; a request with a token that does not
\* verify is answered as the same request without any token is.
C25_MissingAndInvalidAlike ==
  (CsrfApplied /\ ~Verifies(lastCsrf.token)) =>
    LET bare == [lastCsrf.request EXCEPT !.header = NoCsrfToken,
                                         !.cookie = NoCsrfToken,
                                         !.form = NoCsrfToken]
        missing == CsrfMiddleware(bare, envSeed, lastCsrf.now, emptyKeyOk,
                                  lastCsrf.skipPaths)
    IN /\ ~lastCsrf.res.valid /\ lastCsrf.res.status = 403
       /\ missing.error = "CSRF token missing"
       /\ missing.valid = lastCsrf.res.valid
       /\ missing.status = lastCsrf.res.status

\* A token that is there and does not verify has been answered 403.
C25_Witness ==
  /\ CsrfApplied
  /\ lastCsrf.token.parts # 0
  /\ ~Verifies(lastCsrf.token)
  /\ lastCsrf.res.error = "Invalid CSRF token"
  /\ lastCsrf.res.status = 403

----------------------------------------------------------------------------
(* Rate-limit headers: properties                                          *)

\* C26: every response the worker returns after a rate-limit check has run
\* for the request, allowed or denied, carries the headers
\* X-RateLimit-Limit, X-RateLimit-Remaining, X-RateLimit-Reset and
\* Retry-After; a denied one has status 429.
C26_RateHeadersOnEveryResponse ==
  (Fetched /\ lastReq.limit # "none") =>
    /\ lastReq.rateHeaders
    /\ lastReq.limit = "denied" => lastReq.status = 429

----------------------------------------------------------------------------
(* Auth cookie: the Expires attribute                                      *)

----------------------------------------------------------------------------
(* The in-process map: size                                                *)

\* C28: the in-process rate-limit map is bounded: whatever sequence of
\* checks for distinct keys and sweeps occurs, the number of entries it
\* holds never exceeds a fixed maximum.
C28_MapBounded == Cardinality(DOMAIN rateLimitStore) <= maxEntries

\* The timestamps of the list a check got from the store that are later than
\* its now - windowMs.
InWindow(s) ==
  {t \in {chk[s].fetched[i] : i \in DOMAIN chk[s].fetched} :
     t > chk[s].now - ConfigOf(chk[s].key).windowMs}

\* C29: a denied check reports resetTime = (the oldest stored timestamp that
\* is still later than now - windowMs) + windowMs, and that instant is
\* strictly later than the check's own now.
C29_DeniedResetTime ==
  \A s \in DoneSlots :
    ~chk[s].res.allowed =>
      /\ InWindow(s) # {}
      /\ \E oldest \in InWindow(s) :
           /\ \A t \in InWindow(s) : oldest <= t
           /\ chk[s].res.resetTime = oldest + ConfigOf(chk[s].key).windowMs
      /\ chk[s].res.resetTime > chk[s].now

\* A denied check made later than the oldest timestamp of its window.
C29_Witness ==
  \E s \in DoneSlots :
    /\ ~chk[s].res.allowed
    /\ chk[s].now > 0
    /\ chk[s].res.resetTime > chk[s].now
    /\ chk[s].res.resetTime < chk[s].now + ConfigOf(chk[s].key).windowMs

\* The timestamp list the store holds for a key.
StoredRequests(k) ==
  IF backend = "memory"
    THEN IF memoryStore[k].data = 0 THEN <<>> ELSE heap[memoryStore[k].data]
    ELSE IF durable[k].present THEN durable[k].requests ELSE <<>>

\* Allowed checks that ran alone on their key and met no storage fault.
AllowedAlone ==
  {s \in DoneSlots : /\ chk[s].res.allowed
                     /\ chk[s].solo
                     /\ ~chk[s].faultGet
                     /\ ~chk[s].faultSet}

\* C30: after an allowed check that ran alone on its key (and whose storage
\* calls succeeded), the stored list is the previously stored timestamps
\* that are > now - windowMs, in their order, followed by now; it has at most
\* maxRequests elements; remaining = maxRequests - its length, which lies
\* in 0 .. maxRequests - 1.
C30_AllowedStoresPrunedPlusNow ==
  \A s \in AllowedAlone :
    LET cfg == ConfigOf(chk[s].key)
        stored == StoredRequests(chk[s].key)
    IN /\ stored = SelectSeq(chk[s].fetched,
                             LAMBDA t : t > chk[s].now - cfg.windowMs)
                     \o <<chk[s].now>>
       /\ Len(stored) <= cfg.maxRequests
       /\ chk[s].res.remaining = cfg.maxRequests - Len(stored)
       /\ chk[s].res.remaining \in 0 .. (cfg.maxRequests - 1)

\* An allowed check that ran alone and dropped a timestamp that had left its
\* window.
C30_Witness ==
  \E s \in AllowedAlone :
    /\ chk[s].fetched # <<>>
    /\ Len(StoredRequests(chk[s].key)) <= Len(chk[s].fetched)
    /\ chk[s].res.remaining = MaxOf(s) - 1

----------------------------------------------------------------------------
(* validateRateLimit (utils/validation.js)                                 *)

MaxHistory == 3

\* The request histories handed to validateRateLimit: something that is not
\* an array, or an array of timestamps (in any order, past or future).
NonArray == [isArray |-> FALSE, items |-> <<>>]
Histories ==
  {NonArray} \cup
  {[isArray |-> TRUE, items |-> q] :
     q \in UNION {[1..n -> 0..MaxClock] : n \in 0..MaxHistory}}

\* A filter that also keeps a timestamp equal to now - windowMs.
ValidateRateLimitAtEdge(requests, windowMs, maxRequests, now) ==
  IF ~requests.isArray
    THEN [valid |-> TRUE, remaining |-> maxRequests, resetTime |-> 0]
    ELSE LET recentRequests ==
               SelectSeq(requests.items, LAMBDA t : t >= now - windowMs)
         IN IF Len(recentRequests) >= maxRequests
              THEN [valid |-> FALSE, remaining |-> 0,
                    resetTime |-> SeqMin(recentRequests) + windowMs]
              ELSE [valid |-> TRUE,
                    remaining |-> maxRequests - Len(recentRequests),
                    resetTime |-> 0]

\* validateRateLimit(requests, windowMs, maxRequests) at Date.now() = now;
\* resetTime 0 stands for the absent field.
ValidateRateLimit(requests, windowMs, maxRequests, now) ==
  IF ~requests.isArray
    THEN [valid |-> TRUE, remaining |-> maxRequests, resetTime |-> 0]
    ELSE LET windowStart == now - windowMs
             recentRequests ==
               SelectSeq(requests.items, LAMBDA t : t > windowStart)
         IN IF Len(recentRequests) >= maxRequests
              THEN [valid |-> FALSE, remaining |-> 0,
                    resetTime |-> SeqMin(recentRequests) + windowMs]
              ELSE [valid |-> TRUE,
                    remaining |-> maxRequests - Len(recentRequests),
                    resetTime |-> 0]

\* One call of validateRateLimit.
ValidateCall(requests, windowMs, maxRequests) ==
  /\ ~lastValidate.called
  /\ lastValidate' =
       [called |-> TRUE, requests |-> requests, windowMs |-> windowMs,
        maxRequests |-> maxRequests, now |-> clock,
        result |-> ValidateRateLimit(requests, windowMs, maxRequests, clock)]
  /\ UNCHANGED <<clock, rlVars, authVars, gateVars, sessVars, rateLimitStore>>
  /\ UNCHANGED <<cache, lastCleanup, sched>>

\* The caller has consumed the result.
ValidateReturn ==
  /\ lastValidate.called
  /\ lastValidate' = NoValidate
  /\ UNCHANGED <<clock, rlVars, authVars, gateVars, sessVars, rateLimitStore>>
  /\ UNCHANGED <<cache, lastCleanup, sched>>

NextValidate ==
  \/ \E requests \in Histories, windowMs \in {WinUnit, 2 * WinUnit},
        maxRequests \in 1..MaxHistory :
       ValidateCall(requests, windowMs, maxRequests)
  \/ ValidateReturn
  \/ lastValidate.called /\ Tick

SpecValidate == InitMem /\ [][NextValidate]_vars

----------------------------------------------------------------------------
(* Rate limiter: entry lifetime                                            *)

\* What InMemoryStorage.get does with the entry of key k at instant t.
GetReturns(k, t) == MemGet(memoryStore, k, t)
GetDeletes(k, t) == MemGetStore(memoryStore, k, t)[k] = Absent

\* C31: every entry the rate limiter writes expires 2 x windowMs after the
\* instant of the set, and the in-process get returns a stored entry at every
\* instant up to and including its expiry and returns null, deleting the
\* entry, at every later instant.
C31_EntryLivesTwoWindows ==
  [][\A k \in Keys :
       /\ (memoryStore'[k] # memoryStore[k] /\ memoryStore'[k].data # 0)
            => memoryStore'[k].expires = clock' + 2 * ConfigOf(k).windowMs
       /\ memoryStore'[k].data # 0
            => \A t \in 0 .. (MaxClock + 1) :
                 IF t <= memoryStore'[k].expires
                   THEN /\ MemGet(memoryStore', k, t) = memoryStore'[k].data
                        /\ MemGetStore(memoryStore', k, t) = memoryStore'
                   ELSE /\ MemGet(memoryStore', k, t) = 0
                        /\ MemGetStore(memoryStore', k, t)[k] = Absent]_vars

\* An entry read at the very instant of its expiry, and still returned.
C31_Witness ==
  \E k \in Keys :
    /\ backend = "memory"
    /\ memoryStore[k].data # 0
    /\ clock = memoryStore[k].expires
    /\ clock = 2 * ConfigOf(k).windowMs
    /\ \E s \in Slots : /\ chk[s].pc = "awaitGet"
                        /\ chk[s].key = k
                        /\ chk[s].now = clock
                        /\ chk[s].ref = memoryStore[k].data
    /\ GetReturns(k, clock + 1) = 0
    /\ GetDeletes(k, clock + 1)

----------------------------------------------------------------------------
(* Rate limiter: one budget per key                                        *)

\* The keys of the checks that take a step, and the keys whose entry or
\* stored list the step changes.
CheckKeys ==
  {IF chk[s].pc = "idle" THEN chk'[s].key ELSE chk[s].key :
     s \in {q \in Slots : chk'[q] # chk[q]}}
Touched ==
  {k \in Keys : \/ memoryStore'[k] # memoryStore[k]
                \/ durable'[k] # durable[k]
                \/ StoredRequests(k)' # StoredRequests(k)}
TouchedClients ==
  {k \in DOMAIN rateLimitStore \cup DOMAIN rateLimitStore' :
     \/ k \notin DOMAIN rateLimitStore
     \/ k \notin DOMAIN rateLimitStore'
     \/ rateLimitStore'[k] # rateLimitStore[k]}

----------------------------------------------------------------------------
(* Rate limiter: a denied check                                            *)

\* The checks that a step answers with a denial.
DeniedNow ==
  {s \in Slots : /\ chk[s].pc # "done"
                 /\ chk'[s].pc = "done"
                 /\ ~chk'[s].res.allowed}

\* C33: a denied check records nothing: the step that answers it leaves the
\* entry's expiry as it was and adds no timestamp to the stored list (the
\* in-process list only loses the timestamps that left the window, the
\* durable one is not written at all), so denials do not extend the
\* lockout: a check made when fewer than maxRequests allowed requests are
\* still inside its window is allowed, whatever was denied before it.
C33_DenialRecordsNothing ==
  [][/\ \A s \in DeniedNow :
          LET k == chk[s].key
          IN /\ memoryStore'[k] = memoryStore[k]
             /\ durable' = durable
             /\ admitted' = admitted
             /\ StoredRequests(k)' =
                  IF backend = "memory" /\ chk[s].ref = memoryStore[k].data
                    THEN SelectSeq(StoredRequests(k),
                           LAMBDA t : t > chk[s].now - ConfigOf(k).windowMs)
                    ELSE StoredRequests(k)
     /\ \A s \in Slots :
          (/\ chk'[s].pc = "done"
           /\ history'[chk'[s].key] = "clean"
           /\ chk'[s].seen < ConfigOf(chk'[s].key).maxRequests)
            => chk'[s].res.allowed]_vars

\* A key at its limit was checked again and denied, and the next check, made
\* when the oldest counted request has just left the window, is allowed.
C33_Witness ==
  \E s \in DoneSlots :
    LET k == chk[s].key
    IN /\ history[k] = "clean"
       /\ started = ConfigOf(k).maxRequests + 2
       /\ \A q \in Keys \ {k} : admitted[q] = <<>>
       /\ Len(admitted[k]) = ConfigOf(k).maxRequests + 1
       /\ chk[s].now = admitted[k][1] + ConfigOf(k).windowMs
       /\ chk[s].seen = ConfigOf(k).maxRequests - 1
       /\ chk[s].res.allowed

----------------------------------------------------------------------------
(* Rate limiter: expiry and the window                                     *)

\* The keys whose entry a step removes from the in-process store.
Dropped == {k \in Keys : memoryStore[k].data # 0 /\ memoryStore'[k].data = 0}

\* C34: when the in-process store drops an entry (get on an expired entry,
\* or the sweep), or hides it from a get at the present instant, no
\* timestamp of the entry and no allowed request of its key is later than
\* that instant - windowMs: expiry removes nothing a check would count.
C34_ExpiryLosesNothing ==
  [][/\ \A k \in Dropped :
          /\ CountNewer(StoredRequests(k), clock - ConfigOf(k).windowMs) = 0
          /\ CountNewer(admitted[k], clock - ConfigOf(k).windowMs) = 0
     /\ \A k \in Keys :
          (memoryStore'[k].data # 0 /\ clock' > memoryStore'[k].expires)
            => /\ CountNewer(StoredRequests(k)', clock' - ConfigOf(k).windowMs) = 0
               /\ CountNewer(admitted'[k], clock' - ConfigOf(k).windowMs) = 0]_vars

\* A key that had used its whole budget is checked after its entry expired:
\* the get has dropped the entry and the check goes on with an empty list.
C34_Witness ==
  \E s \in Slots :
    LET k == chk[s].key
    IN /\ backend = "memory"
       /\ chk[s].pc = "awaitGet"
       /\ chk[s].ref = 0
       /\ chk[s].now = clock
       /\ memoryStore[k] = Absent
       /\ Len(admitted[k]) = ConfigOf(k).maxRequests
       /\ chk[s].seen = 0

----------------------------------------------------------------------------
(* validateRateLimit                                                       *)

\* The number of the given timestamps strictly newer than now - windowMs.
RecentCount ==
  Cardinality({i \in DOMAIN lastValidate.requests.items :
                 lastValidate.requests.items[i] >
                   lastValidate.now - lastValidate.windowMs})

\* C35: validateRateLimit is valid iff fewer than maxRequests of the given
\* timestamps are strictly newer than now - windowMs; a valid answer reports
\* remaining = maxRequests - that number, an invalid one remaining = 0; an
\* empty or non-array history is valid with remaining = maxRequests.
C35_ValidateRateLimit ==
  lastValidate.called =>
    /\ lastValidate.result.valid <=> RecentCount < lastValidate.maxRequests
    /\ lastValidate.result.valid =>
         lastValidate.result.remaining = lastValidate.maxRequests - RecentCount
    /\ ~lastValidate.result.valid => lastValidate.result.remaining = 0
    /\ lastValidate.requests.items = <<>> =>
         /\ lastValidate.result.valid
         /\ lastValidate.result.remaining = lastValidate.maxRequests

\* A history with one timestamp exactly at now - windowMs, which is not
\* counted, and enough newer ones to leave exactly one request.
C35_Witness ==
  /\ lastValidate.called
  /\ lastValidate.now >= lastValidate.windowMs
  /\ \E i \in DOMAIN lastValidate.requests.items :
       lastValidate.requests.items[i] = lastValidate.now - lastValidate.windowMs
  /\ RecentCount = lastValidate.maxRequests - 1
  /\ RecentCount > 0
  /\ lastValidate.result.valid
  /\ lastValidate.result.remaining = 1

----------------------------------------------------------------------------
(* Session revocation with the in-process store                            *)

\* The key's last successful set is not older than its ttl at the instant
\* of the call just answered.
StillRevoked(key) ==
  /\ key \in DOMAIN revocations
  /\ lastSess.now <= revocations[key].at + revocations[key].ttl

\* C36: with the in-process store, blacklistSession returns true, and
\* isSessionBlacklisted(token) is true exactly from a blacklistSession of the
\* token until ttl later, that instant included, and false for a token never
\* blacklisted or blacklisted longer ago; isSessionGloballyInvalid(ts) is
\* true iff invalidateAllSessions ran at most 24 hours ago at an instant
\* greater than ts.
C36_BlacklistLastsTTL ==
  backend = "memory" =>
    /\ lastSess.op \in {"blacklistSession", "invalidateAllSessions"}
         => lastSess.result
    /\ lastSess.op = "isSessionBlacklisted"
         => (lastSess.result <=> StillRevoked(GetBlacklistKey(lastSess.token)))
    /\ lastSess.op = "isSessionGloballyInvalid"
         => (lastSess.result <=>
               /\ StillRevoked(GlobalKey)
               /\ ExtractSessionTimestamp(lastSess.token).v < revocations[GlobalKey].at)

\* A token blacklisted with a ttl of five minutes is asked about exactly
\* five minutes later and is still reported blacklisted.
C36_Witness ==
  /\ backend = "memory"
  /\ lastSess.op = "isSessionBlacklisted"
  /\ GetBlacklistKey(lastSess.token) \in DOMAIN revocations
  /\ revocations[GetBlacklistKey(lastSess.token)].ttl = 5 * 60 * 1000
  /\ lastSess.now = revocations[GetBlacklistKey(lastSess.token)].at + 5 * 60 * 1000
  /\ lastSess.result

----------------------------------------------------------------------------
(* Tokens: purpose binding                                                 *)

Purposes == {"onetime", "admin", "api_token", "session_token"}

\* The same 16 hex digits written as a path token and as the signature part
\* of a bearer token or session cookie.
SigOfToken(token) ==
  [secret |-> token.secret, ts |-> token.seg, nonce |-> token.purpose]
TokenOfSig(sig) == Hmac16(sig.secret, sig.ts, sig.nonce)

\* The token of a purpose for the timestamp segment seg, and what the
\* verifier of a purpose answers when given 16 hex digits with seg.
IssuedFor(purpose, seg) ==
  CASE purpose = "onetime" -> GenerateOneTimeToken(SECRET_SEED, seg)
    [] purpose = "admin" -> GenerateAdminToken(SECRET_SEED, seg)
    [] purpose = "api_token" -> TokenOfSig(GenerateTokenSignature(seg, SECRET_SEED))
    [] purpose = "session_token" -> TokenOfSig(GenerateSessionSignature(seg, SECRET_SEED))
VerifiesFor(purpose, token, seg, now) ==
  CASE purpose = "onetime" ->
         ValidateOneTimeToken(SECRET_SEED, token, seg, ViewMaxAgeMs, now)
    [] purpose = "admin" -> ValidateAdminToken(SECRET_SEED, token, seg, now)
    [] purpose = "api_token" ->
         ValidateBearerToken([parts |-> 2, ts |-> seg, sig |-> SigOfToken(token)],
                             SECRET_SEED, now, FALSE)
    [] purpose = "session_token" ->
         ValidateSessionCookie([parts |-> 2, ts |-> seg, sig |-> SigOfToken(token)],
                               SECRET_SEED, now, FALSE)

\* C37: tokens are bound to their purpose: the token of one purpose for a
\* timestamp t is refused by the verifier of every other purpose given the
\* same t, and a request /view or /admin/panel is accepted only with a token
\* signed for that route; a view token does not open /admin/panel.
C37_BoundToPurpose ==
  /\ \A p \in Purposes, q \in Purposes, seg \in KnownSegs :
       p # q => ~VerifiesFor(q, IssuedFor(p, seg), seg, clock)
  /\ (Answered /\ lastTok.ok) => lastTok.token = SignedFor(lastTok.route, lastTok.seg)
  /\ \A x \in minted :
       (/\ Answered
        /\ lastTok.route = "admin"
        /\ x.purpose = "onetime"
        /\ lastTok.token = x.token) => ~lastTok.ok

\* A fresh view token is presented at /admin/panel with its own timestamp
\* and refused, though it opens /view at that instant.
C37_Witness ==
  \E x \in minted :
    /\ Answered
    /\ lastTok.route = "admin"
    /\ x.purpose = "onetime"
    /\ lastTok.token = x.token
    /\ lastTok.seg = x.seg
    /\ ~lastTok.ok
    /\ VerifiesFor("onetime", x.token, x.seg, lastTok.now)
    /\ \A p \in Purposes : VerifiesFor(p, IssuedFor(p, x.seg), x.seg, lastTok.now)

----------------------------------------------------------------------------
(* SmartCache (utils/cache.js)                                             *)
(*                                                                         *)
(* cache is the Map in insertion order; an entry keeps what CacheEntry     *)
(* keeps apart from the value and the access count.  The hit / miss        *)
(* counters of stats are left out.                                         *)

MaxCacheKeys == 3
MaxTTL == 1

\* options.maxSize and options.cleanupInterval, scaled down.
maxSize == MaxCacheKeys - 1
cleanupInterval == 2 * MaxTTL

\* new CacheEntry(value, ttl) at Date.now() = now.
CacheEntry(key, ttl, now) ==
  [key |-> key, created |-> now, ttl |-> ttl, lastAccessed |-> now]

\* CacheEntry.isExpired
IsExpired(entry, now) ==
  IF entry.ttl = 0 THEN FALSE ELSE (now - entry.created) > entry.ttl

IndexOf(c, key) ==
  IF \E i \in DOMAIN c : c[i].key = key
    THEN CHOOSE i \in DOMAIN c : c[i].key = key ELSE 0

\* Map.prototype.delete
MapDelete(c, key) == SelectSeq(c, LAMBDA e : e.key # key)

\* Map.prototype.set: an existing key keeps its place.
MapSet(c, entry) ==
  IF IndexOf(c, entry.key) = 0 THEN Append(c, entry)
  ELSE [c EXCEPT ![IndexOf(c, entry.key)] = entry]

\* SmartCache.evictLRU: the first entry, in Map order, with the smallest
\* lastAccessed among those accessed before now; none when every entry
\* was accessed at now.
EvictLRU(c, now) ==
  LET older == {i \in DOMAIN c : c[i].lastAccessed < now}
  IN IF older = {} THEN c
     ELSE LET oldest == CHOOSE i \in older :
                          \A j \in older :
                            \/ c[i].lastAccessed < c[j].lastAccessed
                            \/ c[i].lastAccessed = c[j].lastAccessed /\ i <= j
          IN MapDelete(c, c[oldest].key)

\* The loop of SmartCache.cleanup.
DropExpired(c, now) == SelectSeq(c, LAMBDA e : ~IsExpired(e, now))

\* SmartCache.set(key, value, ttl)
SmartCacheSet(key, ttl) ==
  /\ LET evicted == IF Len(cache) >= maxSize THEN EvictLRU(cache, clock) ELSE cache
         stored == MapSet(evicted, CacheEntry(key, ttl, clock))
         sweep == clock - lastCleanup > cleanupInterval
     IN /\ cache' = IF sweep THEN DropExpired(stored, clock) ELSE stored
        /\ lastCleanup' = IF sweep THEN clock ELSE lastCleanup
  /\ UNCHANGED <<clock, rlVars, authVars, gateVars, sessVars, rateLimitStore>>
  /\ UNCHANGED <<lastValidate, sched>>

\* SmartCache.get(key)
SmartCacheGet(key) ==
  /\ LET i == IndexOf(cache, key)
     IN cache' = IF i = 0 THEN cache
                 ELSE IF IsExpired(cache[i], clock) THEN MapDelete(cache, key)
                 ELSE [cache EXCEPT ![i].lastAccessed = clock]
  /\ cache' # cache
  /\ UNCHANGED <<clock, rlVars, authVars, gateVars, sessVars, rateLimitStore>>
  /\ UNCHANGED <<lastValidate, lastCleanup, sched>>

\* SmartCache.delete(key)
SmartCacheDelete(key) ==
  /\ IndexOf(cache, key) # 0
  /\ cache' = MapDelete(cache, key)
  /\ UNCHANGED <<clock, rlVars, authVars, gateVars, sessVars, rateLimitStore>>
  /\ UNCHANGED <<lastValidate, lastCleanup, sched>>

\* SmartCache.cleanup(), from the interval timer.
SmartCacheCleanup ==
  /\ cache' = DropExpired(cache, clock)
  /\ lastCleanup' = clock
  /\ <<cache', lastCleanup'>> # <<cache, lastCleanup>>
  /\ UNCHANGED <<clock, rlVars, authVars, gateVars, sessVars, rateLimitStore>>
  /\ UNCHANGED <<lastValidate, sched>>

NextCache ==
  \/ \E key \in 1..MaxCacheKeys, ttl \in 0..MaxTTL : SmartCacheSet(key, ttl)
  \/ \E key \in 1..MaxCacheKeys : SmartCacheGet(key)
  \/ \E key \in 1..MaxCacheKeys : SmartCacheDelete(key)
  \/ SmartCacheCleanup
  \/ Tick

SpecCache == InitMem /\ [][NextCache]_vars

\* C38: SmartCache never holds more than maxSize entries, whatever sequence
\* of set, get, delete and cleanup calls is made, several sets within one
\* millisecond included.
C38_CacheWithinMaxSize == Len(cache) <= maxSize

----------------------------------------------------------------------------
(* CleanupScheduler (utils/cache.js)                                       *)
(*                                                                         *)
(* start() and stop() run to completion.  The timer callback runs in two   *)
(* steps: it fires and suspends in await memoryManager.cleanup(), and it   *)
(* resumes into finally { scheduleNext() }.  Other calls may run between   *)
(* the two.  No store of this model is registered with the memory manager  *)
(* when the scheduler runs, so the cleanup itself changes nothing here.    *)

MaxTimers == 4

\* The constructor's interval, scaled down.
interval == 1

\* CleanupScheduler.scheduleNext on scheduler s at time now.
ScheduleNext(s, now) ==
  IF ~s.isRunning THEN s
  ELSE [s EXCEPT !.timers = s.timers + 1,
                 !.timerId = s.timers + 1,
                 !.pending = s.pending \cup
                             {[id |-> s.timers + 1, due |-> now + interval]}]

\* CleanupScheduler.start()
SchedulerStart ==
  /\ ~sched.isRunning => sched.timers < MaxTimers
  /\ sched' = IF sched.isRunning THEN [sched EXCEPT !.last = "start again"]
              ELSE [ScheduleNext([sched EXCEPT !.isRunning = TRUE], clock)
                      EXCEPT !.last = "start"]
  /\ UNCHANGED <<clock, rlVars, authVars, gateVars, sessVars, rateLimitStore>>
  /\ UNCHANGED <<lastValidate, cache, lastCleanup>>

\* CleanupScheduler.stop()
SchedulerStop ==
  /\ sched' = [sched EXCEPT
                 !.pending = {t \in sched.pending : t.id # sched.timerId},
                 !.timerId = 0,
                 !.isRunning = FALSE,
                 !.last = "stop"]
  /\ UNCHANGED <<clock, rlVars, authVars, gateVars, sessVars, rateLimitStore>>
  /\ UNCHANGED <<lastValidate, cache, lastCleanup>>

\* A due timer fires: its callback calls memoryManager.cleanup() and
\* suspends in the await.  timerId keeps the id of the fired timer.
TimerFires(t) ==
  /\ t \in sched.pending
  /\ clock >= t.due
  /\ sched' = [sched EXCEPT !.pending = sched.pending \ {t},
                            !.awaiting = sched.awaiting + 1,
                            !.last = "fire"]
  /\ UNCHANGED <<clock, rlVars, authVars, gateVars, sessVars, rateLimitStore>>
  /\ UNCHANGED <<lastValidate, cache, lastCleanup>>

\* A suspended callback resumes: cleanup() has settled, and whether it
\* resolved or rejected, finally calls scheduleNext().
CallbackResumes ==
  /\ sched.awaiting > 0
  /\ sched.isRunning => sched.timers < MaxTimers
  /\ sched' = [ScheduleNext([sched EXCEPT !.awaiting = sched.awaiting - 1],
                            clock)
                 EXCEPT !.last = "resume"]
  /\ UNCHANGED <<clock, rlVars, authVars, gateVars, sessVars, rateLimitStore>>
  /\ UNCHANGED <<lastValidate, cache, lastCleanup>>

NextScheduler ==
  \/ SchedulerStart
  \/ SchedulerStop
  \/ \E t \in sched.pending : TimerFires(t)
  \/ CallbackResumes
  \/ Tick

SpecScheduler == InitMem /\ [][NextScheduler]_vars

\* C39: CleanupScheduler keeps at most one pending cleanup timer under every
\* interleaving of start(), stop() and timer callbacks, stop() followed by
\* start() while a callback is still awaiting included.
C39_OnePendingTimer == Cardinality(sched.pending) <= 1

============================================================================
